---- MODULE Spec2Model ----
(***************************************************************************)
(* Model of the control fabric of the power monitor firmware               *)
(* (src/src/app/control.c, src/src/core/system_timers.c,                   *)
(* src/src/hal/gpio_loads.c, src/src/app/state.c).                         *)
(*                                                                         *)
(* Units: voltages of the measurement record are kept in tenths of a volt  *)
(* (the float Vrms), the int16_t V of the control task in volts; currents  *)
(* in milliamperes; time in FreeRTOS ticks of TickMs ms.                   *)
(*                                                                         *)
(* A sys_timer_t is kept as its lapse xTaskGetTickCount() - start_tick     *)
(* instead of start_tick: the tick interrupt advances the lapse of every   *)
(* running timer.  timer_expired only compares the lapse with timeout_ms,  *)
(* so the lapse is counted up to the first value that reaches timeout_ms;  *)
(* the start_tick of a stopped timer is never read (timer_expired returns  *)
(* early, timer_start overwrites it) and is kept as lapse 0.               *)
(***************************************************************************)
EXTENDS Integers, Sequences, FiniteSets, TLC

\* ------------------------------------------------------------------ bounds
\* number of loads of the model (system_config.h sets 4)
NUM_LOADS == 2
\* re-initialisations (control_reset, MANUAL->AUTO) are taken while the
\* uint8_t counter cont_fails_i is below MaxCont
MaxCont == 3
\* milliseconds per tick of xTaskGetTickCount (portTICK_PERIOD_MS)
TickMs == 2500

\* --------------------------------------------------------- program constants
CONTROL_REC_I_TIME_MS == 5000
CONTROL_REC_V_TIME_MS == 3000
CONTROL_REPET_I_RST_MS == 10000
MAX_FAIL_I == 2
DEFAULT_IMAX == 5000
DEFAULT_VMIN == 200
DEFAULT_VMAX == 250
DEFAULT_AUTO_REC == TRUE
IMAX_HYST_PRC == 10
VRANGE_HYST_PRC == 5
SAVE_ENERGY_THS_KWH == 1
\* thousandths in one kWh: the unit in which energies are counted
PerKWh == 1000
\* a double put together from words of two different values
TornE == 999999
\* 2^16: the halves in which uint32_t values are kept
Half == 65536
\* measures submitted since start-up or the last energy reset
MaxMeas == 3
\* pairs per measurement window of the model (system_config.h sets 4000)
NUM_SAMPLES_ACCUM == 2
\* samples in one frame of the model (FRAME_BYTES / 2 = 512 in the build)
MaxFrame == 2
ADC_MAX_COUNT == 4095
\* windows the acquisition task publishes
MaxWin == 2
GPIO_RETRIES == 3

Loads == 0 .. (NUM_LOADS - 1)

\* inputs the environment draws from
Currents == {2000, 4700, 6000}          \* Irms, mA
Voltages == {1800, 2200}          \* Vrms, 0.1 V
ImaxSet  == {4000, 5000}                \* operator values for imax, mA
VminSet  == {-1, 200, 210}              \* operator values for v_min, V
VmaxSet  == {-1, 250}                   \* operator values for v_max, V
MeasureSet == {[Vrms |-> 2200, Irms |-> 4700, fp |-> 95, E |-> 999],
               [Vrms |-> 2200, Irms |-> 2000, fp |-> 80, E |-> 21],
               [Vrms |-> 1800, Irms |-> 6000, fp |-> 90, E |-> -400]}
LiveMeasures == {[Vrms |-> 2200, Irms |-> 2000], [Vrms |-> 2200, Irms |-> 6000],
                 [Vrms |-> 1800, Irms |-> 2000]}
MvSet == {40, 80}                       \* calibrated samples [mV]
DataSet == {1500, 4095}                 \* the 12-bit data field of a sample
ChannelSet == {"ADC_CH_V", "ADC_CH_I"}
\* outputs, fail records and windows published while a snapshot is taken
SnapOuts == {[i \in Loads |-> FALSE], [i \in Loads |-> i = 0], [i \in Loads |-> TRUE]}
SnapFails == {[FAIL_V |-> [i \in Loads |-> FALSE], FAIL_I |-> FALSE, FAIL_I_NR |-> FALSE],
              [FAIL_V |-> [i \in Loads |-> TRUE], FAIL_I |-> TRUE, FAIL_I_NR |-> TRUE]}
SnapMeasures == {mm \in MeasureSet : mm.E > 0}
PersistedSet == {0, 500}                 \* stored energy found at start-up
\* values of a CFG VMIN / VMAX / CFG_VRANGE_SET command, V
VCmdSet  == {-1, 200, 250}
PrioSet  == {0, 1, 255}                 \* operator / stored values for priority
VrmsSet  == {180, 189, 190, 199, 200, 205, 250, 251, 262, 263}  \* direct FSM calls, V

VARIABLES
    \* control.c, file scope
    ctrl_mode, load_state, s_cfg, priority_index,
    imax_fail, v_fail, imax_repetitive,
    control_global_state, control_state,
    timer_global_rec, timer_cont_fails_i, timer_load_rec,
    \* control.c, function-static locals of control_global_fsm
    cont_fails_i, imax_ths,
    \* state.c: the shared snapshot
    state,
    \* task_control: position and locals
    pc, V, I, ret_global, local_priority, k, ret_indiv, level, gpio_ok, local_loads,
    fails,
    \* operator task (serial handler / broker rx): position and locals
    h_pc, h_id, h_on, h_local,
    \* task_iot_rx inside a control_set_load_state call of its own
    i_pc, i_id, i_on, i_local,
    \* the holder of control_mutex; per task, the mutex operations left in
    \* the call it is making
    control_mutex, q_ops,
    \* state.c, file scope: the last energy handed to the store, the mutex
    last_saved_E, state_mutex,
    \* nvs_config.c: the value nvs_load_energy would return
    nvs_energy,
    \* acquisition task inside state_update_measure: position, argument, locals
    m_pc, m_in, should_save, m_arg,
    \* a task inside state_reset_energy; the serial task inside CFG SAVE
    r_pc, s_pc, s_st,
    \* a sender task (serial monitor / broker publisher): its change detector,
    \* the tick clock, and the arguments and result of its last update call
    detector, now_ms, d_s, d_ths, d_ret,
    \* task_adc_acquisition: position, samples left in the frame, locals
    a_pc, f_left, have_v, v_mv, measure_results,
    \* measure.c, file scope; the result of a measure_get_results call made
    \* by another caller
    v_buf, i_buf, sample_index, q_out,
    \* task_control inside state_update_outputs / state_update_fails and a
    \* consumer inside state_get, copying one field at a time
    w_pc, w_arg, w_k, c_pc, c_out, c_k,
    \* the configuration namespace of the NVS; flips at every start-up
    nvs_cfg, b_flip,
    \* history, used by the properties only
    a_ev, v_used, n_pairs, g_win,
    h_last,
    since_trip, trip_far,
    e_base, e_sum, n_meas, m_acc, fresh_reset, r_saved, d_marked

ctlVars  == <<ctrl_mode, load_state, s_cfg, priority_index, imax_fail, v_fail,
              imax_repetitive, control_global_state, control_state,
              timer_global_rec, timer_cont_fails_i, timer_load_rec,
              cont_fails_i, imax_ths>>
taskVars == <<pc, V, I, ret_global, local_priority, k, ret_indiv, level, gpio_ok,
              local_loads, fails>>
hVars    == <<h_pc, h_id, h_on, h_local>>
iVars    == <<i_pc, i_id, i_on, i_local>>
lkVars   == <<control_mutex, q_ops>>
histVars == <<since_trip, trip_far>>
enRest   == <<last_saved_E, state_mutex, m_pc, m_in, should_save, m_arg, r_pc, s_pc, s_st,
              e_base, e_sum, n_meas, m_acc, fresh_reset, r_saved>>
enVars   == <<nvs_energy, enRest>>
detVars  == <<detector, now_ms, d_s, d_ths, d_ret, d_marked>>
acqVars  == <<a_pc, f_left, have_v, v_mv, measure_results, v_buf, i_buf, sample_index,
              q_out, a_ev, v_used, n_pairs, g_win>>
snapVars == <<w_pc, w_arg, w_k, c_pc, c_out, c_k, h_last>>
bootVars == <<nvs_cfg, b_flip>>
vars     == <<ctlVars, state, taskVars, hVars, iVars, lkVars, histVars, enVars, detVars, acqVars,
              snapVars, bootVars>>

globalVars == <<imax_fail, imax_repetitive, control_global_state,
                timer_global_rec, timer_cont_fails_i, cont_fails_i, imax_ths>>
indivVars  == <<v_fail, control_state, timer_load_rec>>

\* ------------------------------------------------------------ arithmetic
RECURSIVE Pow2(_)
Pow2(n) == IF n = 0 THEN 1 ELSE 2 * Pow2(n - 1)

RECURSIVE BitLen(_)
BitLen(n) == IF n = 0 THEN 0 ELSE 1 + BitLen(n \div 2)

\* (int16_t)((float)v * c) for an int16_t v >= 0 and the float constant
\* c = m * 2^-24: the exact product is rounded to a 24-bit significand
\* (round to nearest, ties to even) and the conversion truncates.
F32MulToI16(v, m) ==
    LET Q   == 4096
        mh  == m \div Q
        ml  == m % Q
        A   == v * mh + ((v * ml) \div Q)
        B   == (v * ml) % Q
        Ip  == A \div Q
        F   == (A % Q) * Q + B
        nb  == BitLen(Ip)
        drp == Pow2(nb)
        Fq  == F \div drp
        r   == F % drp
        up  == (2 * r > drp) \/ (2 * r = drp /\ Fq % 2 = 1)
        Fr  == IF up THEN Fq + 1 ELSE Fq
    IN  IF Fr = Pow2(24 - nb) THEN Ip + 1 ELSE Ip

\* 1.0f - VRANGE_HYST_PRC/100.0f and 1.0f + VRANGE_HYST_PRC/100.0f as floats,
\* in units of 2^-24
F32_ONE_MINUS_VHYST == 15938355
F32_ONE_PLUS_VHYST  == 17616076

\* (int16_t) st.measure.Vrms : float volts (kept in 0.1 V) truncated
VrmsToI16(vr) == vr \div 10

\* ------------------------------------------------------- system_timers.c
pdTICKS_TO_MS(t) == t * TickMs

timer_start(tout_ms) == [lapse |-> 0, timeout_ms |-> tout_ms, active |-> TRUE]

\* variant of timer_expired that does not wait for the timeout
timer_expired_nowait(t) == t.active

timer_expired(t) ==
    IF ~t.active THEN FALSE
    ELSE pdTICKS_TO_MS(t.lapse) >= t.timeout_ms

timer_stop(t) == [t EXCEPT !.active = FALSE, !.lapse = 0]

\* one tick of xTaskGetTickCount seen by a timer
timer_tick(t) ==
    IF t.active /\ pdTICKS_TO_MS(t.lapse) < t.timeout_ms
    THEN [t EXCEPT !.lapse = t.lapse + 1] ELSE t

\* history counter since_trip: ticks since the last trip, counted up to the
\* first value that is more than CONTROL_REPET_I_RST_MS
TripSat == (CONTROL_REPET_I_RST_MS \div TickMs) + 1

TimerZero == [lapse |-> 0, timeout_ms |-> 0, active |-> FALSE]

\* ---------------------------------------------------------- gpio_loads.c
\* The pin is outside the program: gpio_load_update is modelled by its call
\* and by the value it returns.  errs[j] tells whether the j-th
\* gpio_set_level attempt fails.
GpioErrs == [1 .. GPIO_RETRIES -> BOOLEAN]

gpio_load_update(id, errs) ==
    /\ id \in Loads
    /\ \E j \in 1 .. GPIO_RETRIES : ~errs[j]

\* the values gpio_load_update(id, level) can return
GpioResults(id) == {gpio_load_update(id, errs) : errs \in GpioErrs}

\* ------------------------------------------------------------- control.c
\* imax_reset = imax_cut * (1.0f - IMAX_HYST_PRC/100.0f), in mA
imax_reset_of(imax_cut) == (imax_cut * (100 - IMAX_HYST_PRC)) \div 100

\* variant of the trip signal without the reset threshold
imax_ths_raw(cur) == cur > s_cfg.imax

\* the latched trip signal imax_ths after the update of control.c:238-242
imax_ths_next(cur) ==
    IF ~imax_ths /\ cur > s_cfg.imax THEN TRUE
    ELSE IF imax_ths /\ cur < imax_reset_of(s_cfg.imax) THEN FALSE
    ELSE imax_ths

GlobalKeep(ret) ==
    [st |-> control_global_state, fail |-> imax_fail, rep |-> imax_repetitive,
     cont |-> cont_fails_i, trec |-> timer_global_rec, tcont |-> timer_cont_fails_i,
     ret |-> ret]

\* variant of the OK case that leaves timer_cont_fails_i running at a trip
GlobalCaseOK_run(ths) ==
    LET t1  == IF cont_fails_i # 0 /\ ~timer_cont_fails_i.active
               THEN timer_start(CONTROL_REPET_I_RST_MS) ELSE timer_cont_fails_i
        ex  == timer_expired(t1)
        t2  == IF ex THEN timer_stop(t1) ELSE t1
        c2  == IF ex THEN 0 ELSE cont_fails_i
    IN  IF ths
        THEN [GlobalKeep(FALSE) EXCEPT !.st = "FAIL_I", !.fail = TRUE,
                                       !.cont = (c2 + 1) % 256, !.tcont = t2]
        ELSE [GlobalKeep(TRUE) EXCEPT !.cont = c2, !.tcont = t2]

\* case CONTROL_GLOBAL_OK
GlobalCaseOK(ths) ==
    LET t1  == IF cont_fails_i # 0 /\ ~timer_cont_fails_i.active
               THEN timer_start(CONTROL_REPET_I_RST_MS) ELSE timer_cont_fails_i
        ex  == timer_expired(t1)
        t2  == IF ex THEN timer_stop(t1) ELSE t1
        c2  == IF ex THEN 0 ELSE cont_fails_i
    IN  IF ths
        THEN [GlobalKeep(FALSE) EXCEPT !.st = "FAIL_I", !.fail = TRUE,
                                       !.cont = (c2 + 1) % 256, !.tcont = timer_stop(t2)]
        ELSE [GlobalKeep(TRUE) EXCEPT !.cont = c2, !.tcont = t2]

\* variant of the FAIL_I case that allows one trip more before the lockout
GlobalCaseFAIL_I_late(ths) ==
    IF ~ths
    THEN IF cont_fails_i <= MAX_FAIL_I
         THEN [GlobalKeep(FALSE) EXCEPT !.fail = FALSE, !.st = "REC",
                                        !.trec = timer_start(CONTROL_REC_I_TIME_MS)]
         ELSE [GlobalKeep(FALSE) EXCEPT !.fail = FALSE, !.st = "MAN_REC", !.rep = TRUE]
    ELSE GlobalKeep(FALSE)

\* variant of the FAIL_I case that leaves imax_fail set when the trip clears
GlobalCaseFAIL_I_latch(ths) ==
    IF ~ths
    THEN IF cont_fails_i < MAX_FAIL_I
         THEN [GlobalKeep(FALSE) EXCEPT !.st = "REC",
                                        !.trec = timer_start(CONTROL_REC_I_TIME_MS)]
         ELSE [GlobalKeep(FALSE) EXCEPT !.st = "MAN_REC", !.rep = TRUE]
    ELSE GlobalKeep(FALSE)

\* case CONTROL_GLOBAL_FAIL_I
GlobalCaseFAIL_I(ths) ==
    IF ~ths
    THEN IF cont_fails_i < MAX_FAIL_I
         THEN [GlobalKeep(FALSE) EXCEPT !.fail = FALSE, !.st = "REC",
                                        !.trec = timer_start(CONTROL_REC_I_TIME_MS)]
         ELSE [GlobalKeep(FALSE) EXCEPT !.fail = FALSE, !.st = "MAN_REC", !.rep = TRUE]
    ELSE GlobalKeep(FALSE)

\* variant of the REC case that never returns to OK
GlobalCaseREC_stay(ths) ==
    IF ths
    THEN [GlobalKeep(FALSE) EXCEPT !.trec = timer_stop(timer_global_rec), !.st = "FAIL_I",
                                   !.cont = (cont_fails_i + 1) % 256, !.fail = TRUE]
    ELSE [GlobalKeep(FALSE) EXCEPT !.fail = FALSE]

\* variant of the REC case that returns to OK without waiting for the timer
GlobalCaseREC_nowait(ths) ==
    IF ths
    THEN [GlobalKeep(FALSE) EXCEPT !.trec = timer_stop(timer_global_rec), !.st = "FAIL_I",
                                   !.cont = (cont_fails_i + 1) % 256, !.fail = TRUE]
    ELSE [GlobalKeep(TRUE) EXCEPT !.fail = FALSE, !.trec = timer_stop(timer_global_rec),
                                  !.st = "OK"]

\* case CONTROL_GLOBAL_REC
GlobalCaseREC(ths) ==
    IF ths
    THEN [GlobalKeep(FALSE) EXCEPT !.trec = timer_stop(timer_global_rec), !.st = "FAIL_I",
                                   !.cont = (cont_fails_i + 1) % 256, !.fail = TRUE]
    ELSE IF timer_expired(timer_global_rec)
    THEN [GlobalKeep(TRUE) EXCEPT !.fail = FALSE, !.trec = timer_stop(timer_global_rec),
                                  !.st = "OK"]
    ELSE [GlobalKeep(FALSE) EXCEPT !.fail = FALSE]

\* variant of the MAN_REC case that returns true
GlobalCaseMAN_REC_true(ths) ==
    [GlobalKeep(TRUE) EXCEPT !.rep = TRUE, !.cont = 0]

\* variant of the MAN_REC case that recovers by itself when the trip clears
GlobalCaseMAN_REC_auto(ths) ==
    IF ths THEN [GlobalKeep(FALSE) EXCEPT !.rep = TRUE, !.cont = 0]
    ELSE [GlobalKeep(FALSE) EXCEPT !.st = "REC", !.cont = 0,
                                   !.trec = timer_start(CONTROL_REC_I_TIME_MS)]

\* case CONTROL_GLOBAL_MAN_REC
GlobalCaseMAN_REC(ths) ==
    [GlobalKeep(FALSE) EXCEPT !.rep = TRUE, !.cont = 0]

\* control_global_fsm(I): the values it leaves and the value it returns
GlobalFsmResult(cur) ==
    LET ths == imax_ths_next(cur)
    IN  CASE control_global_state = "OK"      -> GlobalCaseOK(ths)
          [] control_global_state = "FAIL_I"  -> GlobalCaseFAIL_I(ths)
          [] control_global_state = "REC"     -> GlobalCaseREC(ths)
          [] control_global_state = "MAN_REC" -> GlobalCaseMAN_REC(ths)

control_global_fsm(cur) ==
    LET r == GlobalFsmResult(cur)
    IN  /\ imax_ths' = imax_ths_next(cur)
        /\ control_global_state' = r.st
        /\ imax_fail' = r.fail
        /\ imax_repetitive' = r.rep
        /\ cont_fails_i' = r.cont
        /\ timer_global_rec' = r.trec
        /\ timer_cont_fails_i' = r.tcont
        /\ ret_global' = r.ret
        \* history.  since_trip: ticks since the last trip (entry to FAIL_I),
        \* followed while cont_fails_i remembers a trip.  trip_far: the trip that
        \* led to the present FAIL_I / MAN_REC was taken in OK, more than
        \* CONTROL_REPET_I_RST_MS after the trip before it.
        /\ IF r.st = "FAIL_I" /\ control_global_state # "FAIL_I"
           THEN /\ trip_far' = (/\ control_global_state = "OK"
                                 /\ cont_fails_i # 0
                                 /\ pdTICKS_TO_MS(since_trip) > CONTROL_REPET_I_RST_MS)
                /\ since_trip' = 0
           ELSE /\ trip_far' = (trip_far /\ r.st \in {"FAIL_I", "MAN_REC"})
                /\ since_trip' = IF r.cont = 0 THEN TripSat ELSE since_trip

\* variant of vmin_hyst with twice the hysteresis band
vmin_hyst_wide(vmin) ==
    IF vmin >= 0 THEN (vmin * (100 - 2 * VRANGE_HYST_PRC)) \div 100 ELSE -1

\* int16_t vmin_hyst / vmax_hyst of control.c:314-315
vmin_hyst_of(vmin) == IF vmin >= 0 THEN F32MulToI16(vmin, F32_ONE_MINUS_VHYST) ELSE -1
vmax_hyst_of(vmax) == IF vmax >= 0 THEN F32MulToI16(vmax, F32_ONE_PLUS_VHYST) ELSE -1

\* v_out_range of control.c:317-323
v_out_range(id, vrms) ==
    LET vmin == s_cfg.load[id].v_min
        vmax == s_cfg.load[id].v_max
    IN  IF v_fail[id]
        THEN \/ (vrms < vmin_hyst_of(vmin) /\ vmin >= 0)
             \/ (vrms > vmax_hyst_of(vmax) /\ vmax >= 0)
        ELSE \/ (vrms < vmin /\ vmin >= 0)
             \/ (vrms > vmax /\ vmax >= 0)

IndivKeep(id, ret) ==
    [st |-> control_state[id], vf |-> v_fail[id], t |-> timer_load_rec[id], ret |-> ret]

\* variant of the ON case that does not look at the voltage
IndivCaseON_blind(id, out) ==
    [IndivKeep(id, TRUE) EXCEPT !.vf = FALSE]

\* case CONTROL_INDIV_ON
IndivCaseON(id, out) ==
    IF out THEN [IndivKeep(id, FALSE) EXCEPT !.st = "FAIL_V", !.vf = TRUE]
    ELSE [IndivKeep(id, TRUE) EXCEPT !.vf = FALSE]

\* variant of the OFF case that leaves the recovery timer running when the
\* voltage leaves the range
IndivCaseOFF_run(id, out) ==
    LET t == timer_load_rec[id]
    IN  IF out
        THEN [IndivKeep(id, FALSE) EXCEPT !.st = "FAIL_V", !.vf = TRUE]
        ELSE IF s_cfg.load[id].auto_rec
        THEN IF ~t.active
             THEN [IndivKeep(id, FALSE) EXCEPT !.vf = FALSE,
                                               !.t = timer_start(CONTROL_REC_V_TIME_MS)]
             ELSE IF timer_expired(t)
             THEN [IndivKeep(id, TRUE) EXCEPT !.vf = FALSE, !.t = timer_stop(t), !.st = "ON"]
             ELSE [IndivKeep(id, FALSE) EXCEPT !.vf = FALSE]
        ELSE [IndivKeep(id, FALSE) EXCEPT !.vf = FALSE]

\* case CONTROL_INDIV_OFF
IndivCaseOFF(id, out) ==
    LET t == timer_load_rec[id]
    IN  IF out
        THEN [IndivKeep(id, FALSE) EXCEPT !.t = timer_stop(t), !.st = "FAIL_V", !.vf = TRUE]
        ELSE IF s_cfg.load[id].auto_rec
        THEN IF ~t.active
             THEN [IndivKeep(id, FALSE) EXCEPT !.vf = FALSE,
                                               !.t = timer_start(CONTROL_REC_V_TIME_MS)]
             ELSE IF timer_expired(t)
             THEN [IndivKeep(id, TRUE) EXCEPT !.vf = FALSE, !.t = timer_stop(t), !.st = "ON"]
             ELSE [IndivKeep(id, FALSE) EXCEPT !.vf = FALSE]
        ELSE [IndivKeep(id, FALSE) EXCEPT !.vf = FALSE]

\* case CONTROL_INDIV_FAIL_V
IndivCaseFAIL_V(id, out) ==
    IF ~out
    THEN [IndivKeep(id, FALSE) EXCEPT
             !.st = "OFF", !.vf = FALSE,
             !.t = IF s_cfg.load[id].auto_rec
                   THEN timer_start(CONTROL_REC_V_TIME_MS) ELSE timer_load_rec[id]]
    ELSE [IndivKeep(id, FALSE) EXCEPT !.vf = TRUE]

\* control_indiv_fsm(id, vrms): the values it leaves and the value it returns
IndivFsmResult(id, vrms) ==
    LET out == v_out_range(id, vrms)
    IN  CASE control_state[id] = "ON"     -> IndivCaseON(id, out)
          [] control_state[id] = "OFF"    -> IndivCaseOFF(id, out)
          [] control_state[id] = "FAIL_V" -> IndivCaseFAIL_V(id, out)

control_indiv_fsm(id, vrms) ==
    LET r == IndivFsmResult(id, vrms)
    IN  /\ control_state' = [control_state EXCEPT ![id] = r.st]
        /\ v_fail' = [v_fail EXCEPT ![id] = r.vf]
        /\ timer_load_rec' = [timer_load_rec EXCEPT ![id] = r.t]
        /\ ret_indiv' = r.ret

\* control_global_fsm_init: the values it leaves
control_global_fsm_init ==
    [st |-> "OK", rep |-> FALSE]

\* control_indiv_fsm_init(id), given the load_state[] in force
control_indiv_fsm_init(id, ls) ==
    [st |-> IF ls[id] THEN "ON" ELSE "OFF",
     t  |-> timer_stop(timer_load_rec[id]),
     vf |-> FALSE]

\* control_rebuild_priority_index: the selection sort of control.c:27-47,
\* started from the identity and run over the pairs (i, j), i < j
RECURSIVE SortFrom(_, _, _, _)
SortFrom(idx, cfg, i, j) ==
    IF i >= NUM_LOADS - 1 THEN idx
    ELSE IF j >= NUM_LOADS THEN SortFrom(idx, cfg, i + 1, i + 2)
    ELSE LET id_i == idx[i]
             id_j == idx[j]
             pr_i == cfg.load[id_i].priority
             pr_j == cfg.load[id_j].priority
             sw   == (pr_j < pr_i) \/ (pr_j = pr_i /\ id_j < id_i)
             nx   == IF sw THEN [idx EXCEPT ![i] = id_j, ![j] = id_i] ELSE idx
         IN  SortFrom(nx, cfg, i, j + 1)

\* variant of control_rebuild_priority_index that only fills the index by id
control_rebuild_priority_index_byid(cfg) == [i \in Loads |-> i]

control_rebuild_priority_index(cfg) ==
    SortFrom([i \in Loads |-> i], cfg, 0, 1)

\* -------------------------------------------------------------- initial state
AllOff == [i \in Loads |-> FALSE]

DefaultCfg ==
    [imax |-> DEFAULT_IMAX,
     load |-> [i \in Loads |-> [v_min |-> DEFAULT_VMIN, v_max |-> DEFAULT_VMAX,
                                auto_rec |-> DEFAULT_AUTO_REC, priority |-> i]]]

FailsZero == [FAIL_V |-> AllOff, FAIL_I |-> FALSE, FAIL_I_NR |-> FALSE]

\* uint32_t values are kept as <<high half, low half>>
U32Zero == <<0, 0>>

\* a - b in uint32_t
U32Sub(a, b) ==
    LET lo == a[2] - b[2]
        br == IF lo < 0 THEN 1 ELSE 0
    IN  <<(a[1] - b[1] - br + Half) % Half, (lo + Half) % Half>>

\* a >= b in uint32_t
U32Geq(a, b) == a[1] > b[1] \/ (a[1] = b[1] /\ a[2] >= b[2])

\* values of pdTICKS_TO_MS(xTaskGetTickCount()) in the order the clock takes
\* them: 0, 1000, 3000, 2^32 - 1000, and round again
TimeSeq == << <<0, 0>>, <<0, 1000>>, <<0, 3000>>, <<65535, 64536>> >>

\* state_ths_t of a sender; uart_protocol.c:16-22 has positive thresholds
ThsZero == [v_ths |-> 0, i_ths |-> 0, fp_ths |-> 0, e_ths |-> 0, tmin_ms |-> U32Zero]
ThsSet ==
    {ThsZero,
     [v_ths |-> 10, i_ths |-> 50, fp_ths |-> 5, e_ths |-> 10, tmin_ms |-> <<0, 2000>>]}

\* memset(&state, 0, sizeof(state)), state.c:11; a state_t local not yet filled
ZeroState == [Vrms |-> 0, Irms |-> 0, fp |-> 0, E |-> 0, output |-> AllOff,
              fails |-> FailsZero]

\* the snapshots handed to the change detector: one base and every change
\* of a single field, small and large, in the first and the last load
SnapBase == [ZeroState EXCEPT !.Vrms = 2200, !.Irms = 2000, !.fp = 90, !.E = 500]
SnapSet ==
    {ZeroState, SnapBase,
     [SnapBase EXCEPT !.Vrms = 2210], [SnapBase EXCEPT !.Vrms = 2189],
     [SnapBase EXCEPT !.Irms = 2050], [SnapBase EXCEPT !.Irms = 2051],
     [SnapBase EXCEPT !.fp = -90],    [SnapBase EXCEPT !.fp = -84],
     [SnapBase EXCEPT !.E = 510],     [SnapBase EXCEPT !.E = 489],
     [SnapBase EXCEPT !.output[0] = TRUE],
     [SnapBase EXCEPT !.output[NUM_LOADS - 1] = TRUE],
     [SnapBase EXCEPT !.fails.FAIL_I = TRUE],
     [SnapBase EXCEPT !.fails.FAIL_I_NR = TRUE],
     [SnapBase EXCEPT !.fails.FAIL_V[0] = TRUE],
     [SnapBase EXCEPT !.fails.FAIL_V[NUM_LOADS - 1] = TRUE]}

\* the measure_t no call has passed yet
NoMeasure == [Vrms |-> 0, Irms |-> 0, fp |-> 0, E |-> 0]

\* measure.c:4-6 and the locals of task_adc_acquisition (acquisition.c:8-13);
\* v_mv is not initialised and not read before the first V-sample sets it
Slots == 0 .. (NUM_SAMPLES_ACCUM - 1)
ZeroBuf == [j \in Slots |-> 0]
AcquisitionInit ==
    /\ a_pc = "read" /\ f_left = 0
    /\ have_v = FALSE /\ v_mv = 0
    /\ measure_results = NoMeasure /\ q_out = NoMeasure
    /\ v_buf = ZeroBuf /\ i_buf = ZeroBuf /\ sample_index = 0
    /\ a_ev = "none" /\ v_used = 0 /\ n_pairs = 0
    /\ g_win = <<>>

\* no state_update_* call and no state_get in progress
SnapshotInit ==
    /\ w_pc = "idle" /\ w_arg = ZeroState /\ w_k = 0
    /\ c_pc = "idle" /\ c_out = ZeroState /\ c_k = 0
    /\ h_last = ZeroState

\* an NVS namespace without a stored configuration (nvs_config.c:83-91)
NoCfg == [saved |-> FALSE, cfg |-> DefaultCfg]

\* first start-up: nothing was saved yet
BootInit ==
    /\ nvs_cfg = NoCfg /\ b_flip = FALSE

\* the tasks of main.c that call state.c and control.c
Tasks == {"acquisition", "control", "serial", "display", "telemetry"}

Take(m) == [op |-> "take", m |-> m]
Give(m) == [op |-> "give", m |-> m]

\* the mutex operations of every state_* operation (state.c:15-77)
StateCall == <<Take("state_mutex"), Give("state_mutex")>>

\* the mutex operations of control_reset, control_set_mode and every
\* control_get_* / control_set_* / NVS operation (control.c:57-103, 120-215)
ControlCall == <<Take("control_mutex"), Give("control_mutex")>>

\* variant of control_set_load_state that publishes before it gives control_mutex
SetLoadStateCall_nested ==
    <<Take("control_mutex"), Take("state_mutex"), Give("state_mutex"), Give("control_mutex")>>

\* control_set_load_state, control.c:111-116
SetLoadStateCall == ControlCall \o StateCall

\* the loop body of task_control: control.c:403-405 and 409-412 / 416-420
RECURSIVE LoadLoopCalls(_)
LoadLoopCalls(n) == IF n = 0 THEN <<>> ELSE ControlCall \o ControlCall \o LoadLoopCalls(n - 1)

\* one iteration of task_control in AUTO, control.c:377-425
ControlIteration ==
    StateCall \o ControlCall \o LoadLoopCalls(NUM_LOADS) \o StateCall \o StateCall

\* what each task calls: state_update_measure (acquisition.c:56); the
\* control iteration; the serial tasks (uart_protocol.c:146-147,
\* uart_handler.c:123-311); state_get (display_manager.c:314); the broker
\* tasks (iot_mqtt.c:163, 272, 291-339)
CallsOf(t) ==
    CASE t = "acquisition" -> {StateCall}
      [] t = "control"     -> {ControlIteration}
      [] t = "serial"      -> {StateCall, ControlCall, StateCall \o ControlCall,
                               ControlCall \o SetLoadStateCall}
      [] t = "display"     -> {StateCall}
      [] t = "telemetry"   -> {StateCall \o ControlCall, ControlCall,
                               ControlCall \o SetLoadStateCall}

\* state_init and control_init created both mutexes; no task has run
LocksInit ==
    /\ control_mutex = "free" /\ q_ops = [t \in Tasks |-> <<>>]

\* state_change_detector_init, state.c:79-82
DetectorInit ==
    /\ detector = [last_sent |-> ZeroState, last_update_time |-> U32Zero]
    /\ now_ms = TimeSeq[1]
    /\ d_s = ZeroState /\ d_ths = ThsZero /\ d_ret = FALSE /\ d_marked = FALSE

\* main_init: state_init, gpio_loads_init, control_init (control_reset);
\* state_set_energy (state.c:70-77) gives E and last_saved_E the stored energy e0;
\* hid is the load the operator addresses first, vr and ir the measure in
\* the snapshot (0 until the acquisition task publishes its first window)
InitAll(hid, vr, ir, e0) ==
    /\ ctrl_mode = "AUTO"
    /\ load_state = AllOff
    /\ s_cfg = DefaultCfg
    /\ priority_index = [i \in Loads |-> i]
    /\ imax_fail = FALSE
    /\ v_fail = AllOff
    /\ imax_repetitive = FALSE
    /\ control_global_state = "OK"
    /\ control_state = [i \in Loads |-> "OFF"]
    /\ timer_global_rec = TimerZero
    /\ timer_cont_fails_i = TimerZero
    /\ timer_load_rec = [i \in Loads |-> TimerZero]
    /\ cont_fails_i = 0
    /\ imax_ths = FALSE
    /\ state = [ZeroState EXCEPT !.Vrms = vr, !.Irms = ir, !.E = e0]
    /\ last_saved_E = e0 /\ nvs_energy = e0 /\ state_mutex = "free"
    /\ m_pc = "idle" /\ m_in = NoMeasure /\ should_save = FALSE /\ m_arg = 0
    /\ r_pc = "idle" /\ s_pc = "idle" /\ s_st = ZeroState
    /\ e_base = e0 /\ e_sum = 0 /\ n_meas = 0 /\ m_acc = 0
    /\ fresh_reset = FALSE /\ r_saved = FALSE
    /\ DetectorInit
    /\ AcquisitionInit
    /\ SnapshotInit
    /\ BootInit
    /\ LocksInit
    /\ pc = "idle" /\ V = 0 /\ I = 0 /\ ret_global = FALSE
    /\ local_priority = [i \in Loads |-> i] /\ k = 0 /\ ret_indiv = FALSE
    /\ level = FALSE /\ gpio_ok = FALSE /\ local_loads = AllOff /\ fails = FailsZero
    /\ h_pc = "idle" /\ h_id = hid /\ h_on = FALSE /\ h_local = AllOff
    /\ i_pc = "idle" /\ i_id = 0 /\ i_on = FALSE /\ i_local = AllOff
    /\ since_trip = TripSat /\ trip_far = FALSE

\* a store that holds no energy yet
InitWith(hid, vr, ir) == InitAll(hid, vr, ir, 0)

Init == InitWith(0, 0, 0)

\* ------------------------------------------------------------- task_control
\* control.c:377-383: the unlocked read of ctrl_mode and state_get(&st).
\* In MANUAL the iteration does nothing.
T_Begin ==
    /\ pc = "idle"
    /\ ctrl_mode = "AUTO"
    /\ V' = VrmsToI16(state.Vrms)
    /\ I' = state.Irms
    /\ pc' = "global"
    /\ UNCHANGED <<enVars, detVars, acqVars, snapVars, bootVars, ctlVars, state, ret_global, local_priority, k,
                   ret_indiv, level, gpio_ok, local_loads, fails, hVars, iVars, lkVars, histVars>>

\* control.c:385-392: global FSM and copy of the priority index, under the mutex
T_Global ==
    /\ pc = "global"
    /\ control_global_fsm(I)
    /\ local_priority' = priority_index
    /\ pc' = "fails"
    /\ UNCHANGED <<enVars, detVars, acqVars, snapVars, bootVars, ctrl_mode, load_state, s_cfg, priority_index, indivVars,
                   state, V, I, k, ret_indiv, level, gpio_ok, local_loads, fails,
                   hVars, iVars, lkVars>>

\* control.c:394-398: the fails record is built outside the mutex
T_Fails ==
    /\ pc = "fails"
    /\ fails' = [FAIL_V |-> AllOff,
                 FAIL_I |-> IF imax_repetitive THEN I > s_cfg.imax ELSE imax_fail,
                 FAIL_I_NR |-> imax_repetitive]
    /\ local_loads' = AllOff
    /\ k' = 0
    /\ pc' = "indiv"
    /\ UNCHANGED <<enVars, detVars, acqVars, snapVars, bootVars, ctlVars, state, V, I, ret_global, local_priority,
                   ret_indiv, level, gpio_ok, hVars, iVars, lkVars, histVars>>

\* control.c:401-405: per-load FSM of load l = local_priority[k], under the mutex
T_Indiv ==
    /\ pc = "indiv"
    /\ LET l == local_priority[k]
       IN  control_indiv_fsm(l, V)
    /\ pc' = "gpio"
    /\ UNCHANGED <<enVars, detVars, acqVars, snapVars, bootVars, ctrl_mode, load_state, s_cfg, priority_index, globalVars,
                   state, V, I, ret_global, local_priority, k, level, gpio_ok,
                   local_loads, fails, hVars, iVars, lkVars, histVars>>

\* control.c:407: gpio_load_update(l, ret_global && ret_indiv), outside the mutex
T_Gpio ==
    /\ pc = "gpio"
    /\ level' = (ret_global /\ ret_indiv)
    /\ \E ok \in GpioResults(local_priority[k]) : gpio_ok' = ok
    /\ pc' = "commit"
    /\ UNCHANGED <<enVars, detVars, acqVars, snapVars, bootVars, ctlVars, state, V, I, ret_global, local_priority, k, ret_indiv,
                   local_loads, fails, hVars, iVars, lkVars, histVars>>

\* variant of the stored value: either FSM alone switches the load on
CommitValue_or == ret_global \/ ret_indiv

\* the value control.c:417 stores in load_state[l]
CommitValue == ret_global /\ ret_indiv

\* variant that publishes the level that was commanded
PublishedOnFailure_level(l) == level

\* control.c:410: what a load whose pin could not be written publishes
PublishedOnFailure(l) == load_state[l]

\* control.c:408-420: both branches after gpio_load_update, under the mutex
T_Commit ==
    /\ pc = "commit"
    /\ LET l == local_priority[k]
       IN  IF ~gpio_ok
           THEN /\ local_loads' = [local_loads EXCEPT ![l] = PublishedOnFailure(l)]
                /\ fails' = [fails EXCEPT !.FAIL_V[l] = v_fail[l]]
                /\ UNCHANGED load_state
           ELSE /\ load_state' = [load_state EXCEPT ![l] = CommitValue]
                /\ local_loads' = [local_loads EXCEPT ![l] = CommitValue]
                /\ fails' = [fails EXCEPT !.FAIL_V[l] = v_fail[l]]
    /\ k' = k + 1
    /\ pc' = IF k + 1 < NUM_LOADS THEN "indiv" ELSE "pub_fails"
    /\ UNCHANGED <<enVars, detVars, acqVars, snapVars, bootVars, ctrl_mode, s_cfg, priority_index, globalVars, indivVars,
                   state, V, I, ret_global, local_priority, ret_indiv,
                   level, gpio_ok, hVars, iVars, lkVars, histVars>>

\* state.c:49-53
state_update_fails(f) == [state EXCEPT !.fails = f]

\* state.c:43-47
state_update_outputs(out) == [state EXCEPT !.output = out]

\* control.c:423
T_PubFails ==
    /\ pc = "pub_fails"
    /\ state' = state_update_fails(fails)
    /\ pc' = "pub_out"
    /\ UNCHANGED <<enVars, detVars, acqVars, snapVars, bootVars, ctlVars, V, I, ret_global, local_priority, k,
                   ret_indiv, level, gpio_ok, local_loads, fails, hVars, iVars, lkVars, histVars>>

\* control.c:424-435: publish the outputs, then sleep; the locals die here
T_PubOut ==
    /\ pc = "pub_out"
    /\ state' = state_update_outputs(local_loads)
    /\ pc' = "idle"
    /\ V' = 0 /\ I' = 0 /\ ret_global' = FALSE /\ k' = 0 /\ ret_indiv' = FALSE
    /\ level' = FALSE /\ gpio_ok' = FALSE /\ local_loads' = AllOff /\ fails' = FailsZero
    /\ local_priority' = [i \in Loads |-> i]
    /\ UNCHANGED <<enVars, detVars, acqVars, snapVars, bootVars, ctlVars,  hVars, iVars, lkVars, histVars>>

TaskControl ==
    T_Begin \/ T_Global \/ T_Fails \/ T_Indiv \/ T_Gpio \/ T_Commit \/ T_PubFails \/ T_PubOut

\* ---------------------------------------------------------- operator commands
\* control_set_mode(mode), control.c:86-96; a MANUAL -> AUTO switch
\* re-initialises both FSM families
control_set_mode(mode) ==
    LET re == ctrl_mode = "MAN" /\ mode = "AUTO"
    IN  /\ re => cont_fails_i < MaxCont
        /\ ctrl_mode' = mode
        /\ IF re
           THEN /\ control_global_state' = control_global_fsm_init.st
                /\ imax_repetitive' = control_global_fsm_init.rep
                /\ control_state' = [i \in Loads |-> control_indiv_fsm_init(i, load_state).st]
                /\ timer_load_rec' = [i \in Loads |-> control_indiv_fsm_init(i, load_state).t]
                /\ v_fail' = [i \in Loads |-> control_indiv_fsm_init(i, load_state).vf]
           ELSE UNCHANGED <<control_global_state, imax_repetitive, control_state,
                            timer_load_rec, v_fail>>
        /\ UNCHANGED <<load_state, s_cfg, priority_index, imax_fail, timer_global_rec,
                       timer_cont_fails_i, cont_fails_i, imax_ths>>

\* control_reset, control.c:57-84
control_reset ==
    /\ cont_fails_i < MaxCont
    /\ ctrl_mode' = "AUTO"
    /\ s_cfg' = DefaultCfg
    /\ timer_global_rec' = timer_stop(timer_global_rec)
    /\ imax_fail' = FALSE
    /\ priority_index' = [i \in Loads |-> i]
    /\ load_state' = AllOff
    /\ control_state' = [i \in Loads |-> control_indiv_fsm_init(i, AllOff).st]
    /\ timer_load_rec' = [i \in Loads |-> control_indiv_fsm_init(i, AllOff).t]
    /\ v_fail' = [i \in Loads |-> control_indiv_fsm_init(i, AllOff).vf]
    /\ control_global_state' = control_global_fsm_init.st
    /\ imax_repetitive' = control_global_fsm_init.rep
    /\ UNCHANGED <<timer_cont_fails_i, cont_fails_i, imax_ths>>

\* MODE SET of the serial handler (uart_handler.c:139-145) and of the broker
\* task (iot_mqtt.c:290-292)
H_SetMode ==
    /\ h_pc = "idle"
    /\ \E m \in {"AUTO", "MAN"} : control_set_mode(m)
    /\ UNCHANGED <<enVars, detVars, acqVars, snapVars, bootVars, state, taskVars, hVars, iVars, lkVars, histVars>>

\* CFG DEFAULTS of the serial handler (uart_handler.c:243-247):
\* nvs_reset_default erases the namespace, the stored energy included, or
\* fails (its result is not looked at), then control_reset
H_Reset ==
    /\ h_pc = "idle"
    /\ \E ok \in BOOLEAN :
          /\ nvs_energy' = IF ok THEN 0 ELSE nvs_energy
          /\ nvs_cfg' = IF ok THEN NoCfg ELSE nvs_cfg
    /\ control_reset
    /\ UNCHANGED <<enRest, detVars, acqVars, snapVars, b_flip, state, taskVars, hVars, iVars, lkVars,
                   histVars>>

\* LOAD SET: the handler checks control_get_mode() == MANUAL
\* (uart_handler.c:168, iot_mqtt.c:298) and then calls control_set_load_state
H_LoadBegin ==
    /\ h_pc = "idle"
    /\ ctrl_mode = "MAN"
    /\ \E id \in Loads, on \in BOOLEAN : h_id' = id /\ h_on' = on
    /\ h_pc' = "gpio"
    /\ UNCHANGED <<enVars, detVars, acqVars, snapVars, bootVars, ctlVars, state, taskVars, h_local, histVars, iVars, lkVars>>

\* control_set_load_state, control.c:107-110: the GPIO write before the mutex
H_LoadGpio ==
    /\ h_pc = "gpio"
    /\ \E ok \in GpioResults(h_id) : h_pc' = IF ok THEN "commit" ELSE "idle"
    /\ UNCHANGED <<enVars, detVars, acqVars, snapVars, bootVars, ctlVars, state, taskVars, h_id, h_on, h_local, histVars, iVars, lkVars>>

\* control_set_load_state, control.c:111-115
H_LoadCommit ==
    /\ h_pc = "commit"
    /\ load_state' = [load_state EXCEPT ![h_id] = h_on]
    /\ h_local' = [load_state EXCEPT ![h_id] = h_on]
    /\ h_pc' = "pub"
    /\ UNCHANGED <<enVars, detVars, acqVars, snapVars, bootVars, ctrl_mode, s_cfg, priority_index, globalVars, indivVars,
                   state, taskVars, h_id, h_on, histVars, iVars, lkVars>>

\* control_set_load_state, control.c:116-117
H_LoadPub ==
    /\ h_pc = "pub"
    /\ state' = state_update_outputs(h_local)
    /\ h_pc' = "idle" /\ h_id' = 0 /\ h_on' = FALSE /\ h_local' = AllOff
    /\ UNCHANGED <<enVars, detVars, acqVars, snapVars, bootVars, ctlVars,  taskVars, histVars, iVars, lkVars>>

\* IOT_CMD_LOAD_SET of task_iot_rx (iot_mqtt.c:295-309): the same call made
\* by the broker task while the serial handler may be inside its own
I_LoadBegin ==
    /\ i_pc = "idle"
    /\ ctrl_mode = "MAN"
    /\ \E id \in Loads, on \in BOOLEAN : i_id' = id /\ i_on' = on
    /\ i_pc' = "gpio"
    /\ UNCHANGED <<enVars, detVars, acqVars, snapVars, bootVars, ctlVars, state, taskVars,
                   hVars, i_local, histVars, lkVars>>

\* control.c:107-110 in the broker task
I_LoadGpio ==
    /\ i_pc = "gpio"
    /\ \E ok \in GpioResults(i_id) : i_pc' = IF ok THEN "commit" ELSE "idle"
    /\ UNCHANGED <<enVars, detVars, acqVars, snapVars, bootVars, ctlVars, state, taskVars,
                   hVars, i_id, i_on, i_local, histVars, lkVars>>

\* control.c:111-115 in the broker task
I_LoadCommit ==
    /\ i_pc = "commit"
    /\ load_state' = [load_state EXCEPT ![i_id] = i_on]
    /\ i_local' = [load_state EXCEPT ![i_id] = i_on]
    /\ i_pc' = "pub"
    /\ UNCHANGED <<enVars, detVars, acqVars, snapVars, bootVars, ctrl_mode, s_cfg,
                   priority_index, globalVars, indivVars, state, taskVars, hVars,
                   i_id, i_on, histVars, lkVars>>

\* control.c:116-117 in the broker task
I_LoadPub ==
    /\ i_pc = "pub"
    /\ state' = state_update_outputs(i_local)
    /\ i_pc' = "idle" /\ i_id' = 0 /\ i_on' = FALSE /\ i_local' = AllOff
    /\ UNCHANGED <<enVars, detVars, acqVars, snapVars, bootVars, ctlVars, taskVars, hVars,
                   histVars, lkVars>>

\* control_set_load_vmin / control_set_load_vmax / control_set_load_auto_rec,
\* control.c:136-158, on the load the operator addresses
H_SetVmin ==
    /\ \E v \in VminSet : s_cfg' = [s_cfg EXCEPT !.load[h_id].v_min = v]
    /\ UNCHANGED <<enVars, detVars, acqVars, snapVars, bootVars, ctrl_mode, load_state, priority_index, globalVars, indivVars,
                   state, taskVars, hVars, iVars, lkVars, histVars>>

H_SetVmax ==
    /\ \E v \in VmaxSet : s_cfg' = [s_cfg EXCEPT !.load[h_id].v_max = v]
    /\ UNCHANGED <<enVars, detVars, acqVars, snapVars, bootVars, ctrl_mode, load_state, priority_index, globalVars, indivVars,
                   state, taskVars, hVars, iVars, lkVars, histVars>>

H_SetAutoRec ==
    /\ \E en \in BOOLEAN : s_cfg' = [s_cfg EXCEPT !.load[h_id].auto_rec = en]
    /\ UNCHANGED <<enVars, detVars, acqVars, snapVars, bootVars, ctrl_mode, load_state, priority_index, globalVars, indivVars,
                   state, taskVars, hVars, iVars, lkVars, histVars>>

\* control_set_imax(imax), control.c:169-174, as CFG IMAX SET calls it
\* (uart_handler.c:215-221 passes values above 0 only)
H_SetImax ==
    /\ \E im \in ImaxSet : s_cfg' = [s_cfg EXCEPT !.imax = im]
    /\ UNCHANGED <<enVars, detVars, acqVars, snapVars, bootVars, ctrl_mode, load_state, priority_index, globalVars, indivVars,
                   state, taskVars, hVars, iVars, lkVars, histVars>>

\* control_set_load_priority(id, pr), control.c:160-167
H_SetPriority ==
    /\ \E id \in Loads, pr \in PrioSet :
          LET cfg == [s_cfg EXCEPT !.load[id].priority = pr]
          IN  /\ s_cfg' = cfg
              /\ priority_index' = control_rebuild_priority_index(cfg)
    /\ UNCHANGED <<enVars, detVars, acqVars, snapVars, bootVars, ctrl_mode, load_state, globalVars, indivVars,
                   state, taskVars, hVars, iVars, lkVars, histVars>>

\* control_load_from_nvs, control.c:199-215: nvs_load_config fails, or gives
\* the stored configuration (here: any priorities, the other fields as saved
\* from the defaults)
H_LoadCfg ==
    /\ \E ok \in BOOLEAN, pr \in [Loads -> PrioSet] :
          LET cfg == [DefaultCfg EXCEPT
                         !.load = [i \in Loads |-> [DefaultCfg.load[i] EXCEPT !.priority = pr[i]]]]
          IN  IF ok
              THEN /\ s_cfg' = cfg
                   /\ priority_index' = control_rebuild_priority_index(cfg)
              ELSE UNCHANGED <<s_cfg, priority_index>>
    /\ UNCHANGED <<enVars, detVars, acqVars, snapVars, bootVars, ctrl_mode, load_state, globalVars, indivVars,
                   state, taskVars, hVars, iVars, lkVars, histVars>>

\* CFG VMAX SET of the serial handler, uart_handler.c:248-261
U_CfgVmax ==
    /\ \E id \in Loads, v \in VCmdSet :
          IF v < -1 \/ (v # -1 /\ v <= s_cfg.load[id].v_min)
          THEN UNCHANGED s_cfg
          ELSE s_cfg' = [s_cfg EXCEPT !.load[id].v_max = v]
    /\ UNCHANGED <<enVars, detVars, acqVars, snapVars, bootVars, ctrl_mode, load_state,
                   priority_index, globalVars, indivVars, state, taskVars, hVars, iVars, lkVars, histVars>>

\* CFG VMIN SET of the serial handler, uart_handler.c:262-275
U_CfgVmin ==
    /\ \E id \in Loads, v \in VCmdSet :
          IF v < -1 \/ (v # -1 /\ v >= s_cfg.load[id].v_max)
          THEN UNCHANGED s_cfg
          ELSE s_cfg' = [s_cfg EXCEPT !.load[id].v_min = v]
    /\ UNCHANGED <<enVars, detVars, acqVars, snapVars, bootVars, ctrl_mode, load_state,
                   priority_index, globalVars, indivVars, state, taskVars, hVars, iVars, lkVars, histVars>>

\* CFG_VRANGE_SET of the broker task, iot_mqtt.c:322-328:
\* control_set_load_vmin, then control_set_load_vmax
I_CfgVrange ==
    /\ \E id \in Loads, vmin \in VCmdSet, vmax \in VCmdSet :
          s_cfg' = [s_cfg EXCEPT !.load[id].v_min = vmin, !.load[id].v_max = vmax]
    /\ UNCHANGED <<enVars, detVars, acqVars, snapVars, bootVars, ctrl_mode, load_state,
                   priority_index, globalVars, indivVars, state, taskVars, hVars, iVars, lkVars, histVars>>

\* CFG SAVE: control_save_to_nvs, control.c:192-197; nvs_save_config commits
\* the whole configuration or fails (nvs_config.c:21-81)
B_SaveCfg ==
    /\ \E ok \in BOOLEAN :
          nvs_cfg' = IF ok THEN [saved |-> TRUE, cfg |-> s_cfg] ELSE nvs_cfg
    /\ UNCHANGED <<enVars, detVars, acqVars, snapVars, b_flip, ctlVars, state, taskVars,
                   hVars, iVars, lkVars, histVars>>

\* a power cycle: main_init (main.c:16-41) runs nvs_config_init, state_init
\* and control_init, which is control_reset (control.c:49-84); the statics
\* start from their initialisers and the NVS keeps what it held
B_Reboot ==
    /\ b_flip' = ~b_flip
    /\ ctrl_mode' = "AUTO"
    /\ s_cfg' = DefaultCfg
    /\ priority_index' = [i \in Loads |-> i]
    /\ load_state' = AllOff
    /\ v_fail' = AllOff
    /\ imax_fail' = FALSE
    /\ imax_repetitive' = FALSE
    /\ control_global_state' = "OK"
    /\ control_state' = [i \in Loads |-> "OFF"]
    /\ timer_global_rec' = TimerZero
    /\ timer_cont_fails_i' = TimerZero
    /\ timer_load_rec' = [i \in Loads |-> TimerZero]
    /\ cont_fails_i' = 0
    /\ imax_ths' = FALSE
    /\ state' = [ZeroState EXCEPT !.E = nvs_energy]
    /\ last_saved_E' = nvs_energy
    /\ UNCHANGED <<nvs_energy, nvs_cfg, state_mutex, m_pc, m_in, should_save, m_arg, r_pc,
                   s_pc, s_st, e_base, e_sum, n_meas, m_acc, fresh_reset, r_saved,
                   detVars, acqVars, snapVars, taskVars, hVars, iVars, lkVars, histVars>>

\* -------------------------------------------------------------- energy
\* Energies are counted in thousandths of a kWh.
nonEnergy == <<ctlVars, taskVars, hVars, iVars, lkVars, since_trip, trip_far, detVars, acqVars, snapVars,
               bootVars>>

\* nvs_save_energy, nvs_config.c:148-167: the blob is committed, or an error
\* leaves the store as it was
nvs_save_energy(energy, ok) == IF ok THEN energy ELSE nvs_energy

\* variant of the accumulation that keeps only the last window
AccumulateE_last(E, inc) == inc

\* state.measure.E += m->E, state.c:28
AccumulateE(E, inc) == E + inc

\* state_update_measure, state.c:15-35: under state_mutex the fields are
\* copied, the energy accumulated and the threshold tested
state_update_measure_locked(mm) ==
    LET E1    == AccumulateE(state.E, mm.E)
        delta == E1 - last_saved_E
        save  == delta >= SAVE_ENERGY_THS_KWH * PerKWh
    IN  /\ m_pc = "idle"
        /\ state_mutex = "free"
        /\ n_meas < MaxMeas
        /\ m_in' = mm
        /\ state' = [state EXCEPT !.Vrms = mm.Vrms, !.Irms = mm.Irms,
                                   !.fp = mm.fp, !.E = E1]
        /\ should_save' = save
        /\ last_saved_E' = IF save THEN E1 ELSE last_saved_E
        /\ m_pc' = IF save THEN "arg" ELSE "idle"
        /\ m_acc' = IF save THEN E1 ELSE 0
        /\ e_sum' = e_sum + mm.E
        /\ n_meas' = n_meas + 1
        /\ fresh_reset' = FALSE
        /\ UNCHANGED <<state_mutex, nvs_energy, m_arg, r_pc, s_pc, s_st, e_base, r_saved>>

\* the acquisition task publishes a window (acquisition.c:56)
M_Update ==
    /\ \E mm \in MeasureSet : state_update_measure_locked(mm)
    /\ UNCHANGED nonEnergy

\* what a two-word read of last_saved_E can give while state_reset_energy
\* stores 0.0 in it
RacyRead == IF r_pc = "store" /\ last_saved_E # 0
            THEN {last_saved_E, 0, TornE}
            ELSE {last_saved_E}

\* state.c:38: the argument of nvs_save_energy is read from last_saved_E
\* after the mutex was given
M_Arg ==
    /\ m_pc = "arg"
    /\ m_arg' \in RacyRead
    /\ m_pc' = "save"
    /\ UNCHANGED <<nonEnergy, state, last_saved_E, state_mutex, nvs_energy, m_in,
                   should_save, r_pc, s_pc, s_st, e_base, e_sum, n_meas, m_acc,
                   fresh_reset, r_saved>>

\* state.c:37-40: nvs_save_energy(last_saved_E), its result dropped
M_Save ==
    /\ m_pc = "save"
    /\ \E ok \in BOOLEAN : nvs_energy' = nvs_save_energy(m_arg, ok)
    /\ m_pc' = "idle"
    /\ should_save' = FALSE
    /\ m_arg' = 0
    /\ m_acc' = 0
    /\ UNCHANGED <<nonEnergy, state, last_saved_E, state_mutex, m_in, r_pc, s_pc, s_st,
                   e_base, e_sum, n_meas, fresh_reset, r_saved>>

\* state_reset_energy, state.c:61-63: take the mutex, zero the energy
R_Take ==
    /\ r_pc = "idle"
    /\ state_mutex = "free"
    /\ state_mutex' = "state_reset_energy"
    /\ state' = [state EXCEPT !.E = 0]
    /\ r_pc' = "save"
    /\ e_base' = 0 /\ e_sum' = 0 /\ n_meas' = 0
    /\ fresh_reset' = TRUE
    /\ r_saved' = FALSE
    /\ UNCHANGED <<nonEnergy, last_saved_E, nvs_energy, m_pc, m_in, should_save, m_arg,
                   s_pc, s_st, m_acc>>

\* state.c:64: nvs_save_energy(0.0), its result dropped
R_Save ==
    /\ r_pc = "save"
    /\ \E ok \in BOOLEAN :
          /\ nvs_energy' = nvs_save_energy(0, ok)
          /\ r_saved' = ok
    /\ r_pc' = "store"
    /\ UNCHANGED <<nonEnergy, state, last_saved_E, state_mutex, m_pc, m_in, should_save,
                   m_arg, s_pc, s_st, e_base, e_sum, n_meas, m_acc, fresh_reset>>

\* state.c:65-67: last_saved_E = 0.0, give the mutex
R_Give ==
    /\ r_pc = "store"
    /\ last_saved_E' = 0
    /\ state_mutex' = "free"
    /\ r_pc' = "idle"
    /\ UNCHANGED <<nonEnergy, state, nvs_energy, m_pc, m_in, should_save, m_arg,
                   s_pc, s_st, e_base, e_sum, n_meas, m_acc, fresh_reset, r_saved>>

\* CFG SAVE, uart_handler.c:226-227: control_save_to_nvs succeeds or not
S_Begin ==
    /\ s_pc = "idle"
    /\ \E ok \in BOOLEAN : s_pc' = IF ok THEN "get" ELSE "idle"
    /\ UNCHANGED <<nonEnergy, state, last_saved_E, state_mutex, nvs_energy, m_pc, m_in,
                   should_save, m_arg, r_pc, s_st, e_base, e_sum, n_meas, m_acc,
                   fresh_reset, r_saved>>

\* uart_handler.c:228-229: state_get(&st), state.c:55-59
S_Get ==
    /\ s_pc = "get"
    /\ state_mutex = "free"
    /\ s_st' = state
    /\ s_pc' = "save"
    /\ UNCHANGED <<nonEnergy, state, last_saved_E, state_mutex, nvs_energy, m_pc, m_in,
                   should_save, m_arg, r_pc, e_base, e_sum, n_meas, m_acc,
                   fresh_reset, r_saved>>

\* uart_handler.c:230: nvs_save_energy(st.measure.E), its result dropped
S_Save ==
    /\ s_pc = "save"
    /\ \E ok \in BOOLEAN : nvs_energy' = nvs_save_energy(s_st.E, ok)
    /\ s_pc' = "idle"
    /\ s_st' = ZeroState
    /\ UNCHANGED <<nonEnergy, state, last_saved_E, state_mutex, m_pc, m_in,
                   should_save, m_arg, r_pc, e_base, e_sum, n_meas, m_acc,
                   fresh_reset, r_saved>>

\* ------------------------------------------------------- change detector
nonDetector == <<ctlVars, state, taskVars, hVars, iVars, lkVars, histVars, enVars, acqVars, snapVars,
                 bootVars>>

fabs(x) == IF x < 0 THEN -x ELSE x

\* state.c:91: fabs(fabs(s->measure.fp) - fabs(last_sent.measure.fp))
dp_of(a, b) == fabs(fabs(a) - fabs(b))

\* variant of the elapsed-time test that compares the two clock values
is_enough_time_abs(now, last, tmin) == U32Geq(now, last) /\ U32Geq(U32Sub(now, last), tmin)

\* state.c:102-103: (current_time - last_update_time) >= tmin_ms in uint32_t
is_enough_time(now, last, tmin) == U32Geq(U32Sub(now, last), tmin)

\* variant of state_change_detector_update in which each condition alone,
\* the elapsed time included, is enough
state_change_detector_update_any(det, s, ths, now) ==
    \/ det.last_update_time = U32Zero
    \/ fabs(s.Irms - det.last_sent.Irms) > ths.i_ths
    \/ fabs(s.Vrms - det.last_sent.Vrms) > ths.v_ths
    \/ dp_of(s.fp, det.last_sent.fp) > ths.fp_ths
    \/ fabs(s.E - det.last_sent.E) > ths.e_ths
    \/ s.output # det.last_sent.output
    \/ s.fails.FAIL_I # det.last_sent.fails.FAIL_I
    \/ s.fails.FAIL_V # det.last_sent.fails.FAIL_V
    \/ is_enough_time(now, det.last_update_time, ths.tmin_ms)

\* state_change_detector_update, state.c:84-106
state_change_detector_update(det, s, ths, now) ==
    IF det.last_update_time = U32Zero
    THEN TRUE
    ELSE LET di == fabs(s.Irms - det.last_sent.Irms)
             dv == fabs(s.Vrms - det.last_sent.Vrms)
             dp == dp_of(s.fp, det.last_sent.fp)
             de == fabs(s.E - det.last_sent.E)
             is_val_change  == (di > ths.i_ths) \/ (dv > ths.v_ths)
                               \/ (dp > ths.fp_ths) \/ (de > ths.e_ths)
             is_load_change == \E i \in Loads : s.output[i] # det.last_sent.output[i]
             is_fail_change == \/ s.fails.FAIL_I # det.last_sent.fails.FAIL_I
                               \/ \E i \in Loads :
                                     s.fails.FAIL_V[i] # det.last_sent.fails.FAIL_V[i]
         IN  /\ (is_val_change \/ is_load_change \/ is_fail_change)
             /\ is_enough_time(now, det.last_update_time, ths.tmin_ms)

\* a sender asks whether the snapshot s is worth sending
\* (uart_protocol.c:198, display_manager.c:318)
D_Update ==
    /\ \E s \in SnapSet, ths \in ThsSet :
          /\ d_s' = s
          /\ d_ths' = ths
          /\ d_ret' = state_change_detector_update(detector, s, ths, now_ms)
    /\ UNCHANGED <<nonDetector, detector, now_ms, d_marked>>

\* state_change_detector_mark_sent, state.c:108-111, called with the
\* snapshot that update accepted (uart_protocol.c:201, display_manager.c:342)
D_MarkSent ==
    /\ d_ret
    /\ detector' = [last_sent |-> d_s, last_update_time |-> now_ms]
    /\ d_marked' = TRUE
    /\ UNCHANGED <<nonDetector, now_ms, d_s, d_ths, d_ret>>

\* xTaskGetTickCount moves on; the millisecond value wraps
D_Clock ==
    /\ \E i \in 1 .. Len(TimeSeq) :
          /\ now_ms = TimeSeq[i]
          /\ now_ms' = TimeSeq[(i % Len(TimeSeq)) + 1]
    /\ UNCHANGED <<nonDetector, detector, d_s, d_ths, d_ret, d_marked>>

\* --------------------------------------------------------- acquisition
nonAcq == <<ctlVars, taskVars, hVars, iVars, lkVars, histVars, detVars, snapVars, bootVars>>

RECURSIVE SumTo(_, _)
SumTo(f, n) == IF n = 0 THEN 0 ELSE f[n - 1] + SumTo(f, n - 1)

\* variant of the window index that never wraps below the last slot
NextIndex_stuck(ix) == IF ix + 1 >= NUM_SAMPLES_ACCUM THEN NUM_SAMPLES_ACCUM - 1 ELSE ix + 1

\* measure.c:12-17: sample_index++, back to 0 when it reaches the window size
NextIndex(ix) == IF ix + 1 >= NUM_SAMPLES_ACCUM THEN 0 ELSE ix + 1

\* measure_get_results, measure.c:21-74, over the buffers as they are at the
\* call.  The sums are kept as integers, before the divisions by the window
\* size, the gains and the square roots: Vrms and Irms stand as N^2 times the
\* mean squares of the AC parts, E as minus N^2 times the mean product
\* (VOLT_DRIVER_GAIN is negative), fp as 10 P^2 / (Vrms^2 Irms^2).
measure_get_results(vb, ib) ==
    LET n     == NUM_SAMPLES_ACCUM
        sum_v == SumTo(vb, n)
        sum_i == SumTo(ib, n)
        ms_v  == n * SumTo([j \in Slots |-> vb[j] * vb[j]], n) - sum_v * sum_v
        ms_i  == n * SumTo([j \in Slots |-> ib[j] * ib[j]], n) - sum_i * sum_i
        p     == n * SumTo([j \in Slots |-> vb[j] * ib[j]], n) - sum_v * sum_i
    IN  [Vrms |-> ms_v, Irms |-> ms_i,
         fp   |-> IF ms_v * ms_i > 0 THEN (10 * p * p) \div (ms_v * ms_i) ELSE 0,
         E    |-> 0 - p]

\* what every step of the task leaves alone in state.c
AcqKeepsState ==
    UNCHANGED <<state, enVars>>

\* variant in which a paired voltage sample stays pending
PendingAfterPair_kept(closes) == have_v

\* acquisition.c:54-59: have_v = false after measure_add_sample, or, when the
\* window closed, after measure_get_results and state_update_measure
PendingAfterPair(closes) == IF closes THEN have_v ELSE FALSE

\* the place of the task after a sample that closed no window
AfterSample == IF f_left = 1 THEN "read" ELSE "frame"

\* acquisition.c:17-25: app_adc_dma_read gives a frame of whole samples
A_ReadOk ==
    /\ a_pc = "read"
    /\ \E n \in 1 .. MaxFrame : f_left' = n
    /\ a_pc' = "frame"
    /\ AcqKeepsState
    /\ UNCHANGED <<nonAcq, have_v, v_mv, measure_results, v_buf, i_buf, sample_index,
                   q_out, a_ev, v_used, n_pairs, g_win>>

\* acquisition.c:25: ret_bytes is not a multiple of the record size, the
\* frame is thrown away; its samples are missing from what the task sees
A_ReadRejected ==
    /\ a_pc = "read"
    /\ a_ev' = IF a_ev = "V" THEN "gap" ELSE a_ev
    /\ AcqKeepsState
    /\ UNCHANGED <<nonAcq, a_pc, f_left, have_v, v_mv, measure_results, v_buf, i_buf,
                   sample_index, q_out, v_used, n_pairs, g_win>>

\* acquisition.c:63-65: ESP_ERR_TIMEOUT, nothing was read and nothing lost
A_ReadTimeout ==
    /\ a_pc = "read"
    /\ AcqKeepsState
    /\ UNCHANGED <<nonAcq, acqVars>>

\* acquisition.c:66-70: ESP_ERR_INVALID_STATE, the driver's ring buffer was
\* overwritten and samples were lost
A_ReadOverflow ==
    /\ a_pc = "read"
    /\ a_ev' = IF a_ev = "V" THEN "gap" ELSE a_ev
    /\ AcqKeepsState
    /\ UNCHANGED <<nonAcq, a_pc, f_left, have_v, v_mv, measure_results, v_buf, i_buf,
                   sample_index, q_out, v_used, n_pairs, g_win>>

\* acquisition.c:31-46: value = data & 0x0FFF is over ADC_MAX_COUNT, or
\* app_adc_get_voltage fails
A_SampleInvalid ==
    /\ a_pc = "frame"
    /\ \E ch \in ChannelSet, data \in DataSet, cal_ok \in BOOLEAN :
          LET value == data % 4096
          IN  value > ADC_MAX_COUNT \/ ~cal_ok
    /\ have_v' = FALSE
    /\ a_ev' = "invalid"
    /\ f_left' = f_left - 1
    /\ a_pc' = AfterSample
    /\ AcqKeepsState
    /\ UNCHANGED <<nonAcq, v_mv, measure_results, v_buf, i_buf, sample_index, q_out,
                   v_used, n_pairs, g_win>>

\* acquisition.c:48-50: a calibrated sample of the voltage channel
A_SampleV ==
    /\ a_pc = "frame"
    /\ \E mv \in MvSet : v_mv' = mv
    /\ have_v' = TRUE
    /\ a_ev' = "V"
    /\ v_used' = 0
    /\ f_left' = f_left - 1
    /\ a_pc' = AfterSample
    /\ AcqKeepsState
    /\ UNCHANGED <<nonAcq, measure_results, v_buf, i_buf, sample_index, q_out,
                   n_pairs, g_win>>

\* acquisition.c:51-60 with measure_add_sample (measure.c:8-19): a calibrated
\* sample of the current channel
A_SampleI ==
    /\ a_pc = "frame"
    /\ \E mv \in MvSet :
          IF ~have_v
          THEN /\ a_pc' = AfterSample
               /\ UNCHANGED <<v_buf, i_buf, sample_index, have_v, v_used, n_pairs,
                              g_win>>
          ELSE LET ix     == NextIndex(sample_index)
                   closes == sample_index + 1 >= NUM_SAMPLES_ACCUM
               IN  /\ v_buf' = [v_buf EXCEPT ![sample_index] = v_mv]
                   /\ i_buf' = [i_buf EXCEPT ![sample_index] = mv]
                   /\ sample_index' = ix
                   /\ n_pairs' = n_pairs + 1
                   /\ v_used' = v_used + 1
                   /\ g_win' = Append(g_win, <<v_mv, mv>>)
                   /\ have_v' = PendingAfterPair(closes)
                   /\ a_pc' = IF closes THEN "publish" ELSE AfterSample
    /\ a_ev' = "I"
    /\ f_left' = f_left - 1
    /\ AcqKeepsState
    /\ UNCHANGED <<nonAcq, v_mv, measure_results, q_out>>

\* acquisition.c:55-56: the window closed; measure_get_results, then the
\* locked part of state_update_measure
A_Publish ==
    /\ a_pc = "publish"
    /\ n_meas < MaxWin
    /\ measure_results' = measure_get_results(v_buf, i_buf)
    /\ g_win' = <<>>
    /\ state_update_measure_locked(measure_get_results(v_buf, i_buf))
    /\ a_pc' = "clear"
    /\ UNCHANGED <<nonAcq, f_left, have_v, v_mv, v_buf, i_buf, sample_index, q_out,
                   a_ev, v_used, n_pairs>>

\* acquisition.c:59: have_v = false once state_update_measure has returned
A_Clear ==
    /\ a_pc = "clear"
    /\ m_pc = "idle"
    /\ have_v' = FALSE
    /\ a_pc' = IF f_left = 0 THEN "read" ELSE "frame"
    /\ AcqKeepsState
    /\ UNCHANGED <<nonAcq, f_left, v_mv, measure_results, v_buf, i_buf, sample_index,
                   q_out, a_ev, v_used, n_pairs, g_win>>

\* a call of measure_get_results between two samples (measure.h:190-204)
A_Get ==
    /\ a_pc \in {"read", "frame"}
    /\ q_out' = measure_get_results(v_buf, i_buf)
    /\ AcqKeepsState
    /\ UNCHANGED <<nonAcq, a_pc, f_left, have_v, v_mv, measure_results, v_buf, i_buf,
                   sample_index, a_ev, v_used, n_pairs, g_win>>

\* ------------------------------------------------------------ snapshot
nonSnap == <<ctlVars, taskVars, hVars, iVars, lkVars, histVars, detVars, acqVars, bootVars>>

\* the fields of state_t in the order a copy takes them (state.h:62-66)
MeasCells == <<<<"Vrms", 0>>, <<"Irms", 0>>, <<"fp", 0>>, <<"E", 0>>>>
OutCells  == [i \in 1 .. NUM_LOADS |-> <<"output", i - 1>>]
FailCells == [i \in 1 .. NUM_LOADS |-> <<"FAIL_V", i - 1>>]
                 \o <<<<"FAIL_I", 0>>, <<"FAIL_I_NR", 0>>>>
AllCells  == MeasCells \o OutCells \o FailCells

CellGet(st, c) ==
    CASE c[1] = "output"    -> st.output[c[2]]
      [] c[1] = "FAIL_V"    -> st.fails.FAIL_V[c[2]]
      [] c[1] = "FAIL_I"    -> st.fails.FAIL_I
      [] c[1] = "FAIL_I_NR" -> st.fails.FAIL_I_NR
      [] c[1] = "Vrms"      -> st.Vrms
      [] c[1] = "Irms"      -> st.Irms
      [] c[1] = "fp"        -> st.fp
      [] OTHER              -> st.E

CellPut(st, c, v) ==
    CASE c[1] = "output"    -> [st EXCEPT !.output[c[2]] = v]
      [] c[1] = "FAIL_V"    -> [st EXCEPT !.fails.FAIL_V[c[2]] = v]
      [] c[1] = "FAIL_I"    -> [st EXCEPT !.fails.FAIL_I = v]
      [] c[1] = "FAIL_I_NR" -> [st EXCEPT !.fails.FAIL_I_NR = v]
      [] c[1] = "Vrms"      -> [st EXCEPT !.Vrms = v]
      [] c[1] = "Irms"      -> [st EXCEPT !.Irms = v]
      [] c[1] = "fp"        -> [st EXCEPT !.fp = v]
      [] OTHER              -> [st EXCEPT !.E = v]

\* the cells a state_update_outputs / state_update_fails call writes
CellsOf(op) == IF op = "state_update_outputs" THEN OutCells ELSE FailCells

\* variant of the mutex that any task can take at any time
MutexFree_any == TRUE

\* xSemaphoreTake(state_mutex, portMAX_DELAY) returns once no task holds it
MutexFree == state_mutex = "free"

\* what the energy bookkeeping keeps while a copy is in progress
SnapKeepsEnergy ==
    UNCHANGED <<last_saved_E, nvs_energy, m_pc, m_in, should_save, m_arg, r_pc, s_pc,
                s_st, e_base, e_sum, n_meas, m_acc, fresh_reset, r_saved>>

\* state_update_outputs (state.c:43-47) or state_update_fails (49-53) takes
\* the mutex; the argument is what task_control computed (control.c:423-424)
W_Take ==
    /\ w_pc = "idle"
    /\ MutexFree
    /\ \E op \in {"state_update_outputs", "state_update_fails"} :
          /\ w_pc' = op
          /\ state_mutex' = op
    /\ \E out \in SnapOuts, f \in SnapFails :
          w_arg' = [ZeroState EXCEPT !.output = out, !.fails = f]
    /\ w_k' = 1
    /\ SnapKeepsEnergy
    /\ UNCHANGED <<nonSnap, state, c_pc, c_out, c_k, h_last>>

\* memcpy(state.output, out, ...) / state.fails = *fails, one field per step
W_Copy ==
    /\ w_pc # "idle"
    /\ w_k <= Len(CellsOf(w_pc))
    /\ LET c == CellsOf(w_pc)[w_k]
       IN  state' = CellPut(state, c, CellGet(w_arg, c))
    /\ w_k' = w_k + 1
    /\ SnapKeepsEnergy
    /\ UNCHANGED <<nonSnap, state_mutex, w_pc, w_arg, c_pc, c_out, c_k, h_last>>

\* xSemaphoreGive: the call is complete
W_Give ==
    /\ w_pc # "idle"
    /\ w_k > Len(CellsOf(w_pc))
    /\ state_mutex' = "free"
    /\ h_last' = IF w_pc = "state_update_outputs"
                 THEN [h_last EXCEPT !.output = w_arg.output]
                 ELSE [h_last EXCEPT !.fails = w_arg.fails]
    /\ w_pc' = "idle" /\ w_arg' = ZeroState /\ w_k' = 0
    /\ SnapKeepsEnergy
    /\ UNCHANGED <<nonSnap, state, c_pc, c_out, c_k>>

\* state_update_measure, state.c:18: the acquisition task takes the mutex
MU_Take ==
    /\ m_pc = "idle"
    /\ MutexFree
    /\ n_meas < MaxWin
    /\ \E mm \in SnapMeasures : m_in' = mm
    /\ state_mutex' = "state_update_measure"
    /\ m_pc' = "Vrms"
    /\ UNCHANGED <<nonSnap, snapVars, state, last_saved_E, nvs_energy, should_save, m_arg,
                   r_pc, s_pc, s_st, e_base, e_sum, n_meas, m_acc, fresh_reset, r_saved>>

\* state.c:19-27: the fields of the window are copied one by one
MU_Copy ==
    /\ m_pc \in {"Vrms", "Irms", "fp"}
    /\ state' = CellPut(state, <<m_pc, 0>>, CellGet(m_in, <<m_pc, 0>>))
    /\ m_pc' = CASE m_pc = "Vrms" -> "Irms" [] m_pc = "Irms" -> "fp" [] OTHER -> "E"
    /\ UNCHANGED <<nonSnap, snapVars, state_mutex, last_saved_E, nvs_energy, m_in,
                   should_save, m_arg, r_pc, s_pc, s_st, e_base, e_sum, n_meas, m_acc,
                   fresh_reset, r_saved>>

\* state.c:28-35: the energy is accumulated, the threshold tested and the
\* mutex given
MU_Give ==
    /\ m_pc = "E"
    /\ LET E1    == AccumulateE(state.E, m_in.E)
           delta == E1 - last_saved_E
           save  == delta >= SAVE_ENERGY_THS_KWH * PerKWh
       IN  /\ state' = [state EXCEPT !.E = E1]
           /\ should_save' = save
           /\ last_saved_E' = IF save THEN E1 ELSE last_saved_E
           /\ m_pc' = IF save THEN "arg" ELSE "idle"
           /\ m_acc' = IF save THEN E1 ELSE 0
    /\ state_mutex' = "free"
    /\ e_sum' = e_sum + m_in.E
    /\ n_meas' = n_meas + 1
    /\ fresh_reset' = FALSE
    /\ h_last' = [h_last EXCEPT !.Vrms = m_in.Vrms, !.Irms = m_in.Irms, !.fp = m_in.fp,
                                !.E = AccumulateE(h_last.E, m_in.E)]
    /\ UNCHANGED <<nonSnap, w_pc, w_arg, w_k, c_pc, c_out, c_k, nvs_energy, m_in, m_arg,
                   r_pc, s_pc, s_st, e_base, r_saved>>

\* state_get, state.c:56: a consumer task takes the mutex
C_Take ==
    /\ c_pc = "idle"
    /\ MutexFree
    /\ state_mutex' = "state_get"
    /\ c_pc' = "copy"
    /\ c_k' = 1
    /\ SnapKeepsEnergy
    /\ UNCHANGED <<nonSnap, state, w_pc, w_arg, w_k, c_out, h_last>>

\* state.c:57: *out = state, one field per step
C_Copy ==
    /\ c_pc = "copy"
    /\ c_k <= Len(AllCells)
    /\ c_out' = CellPut(c_out, AllCells[c_k], CellGet(state, AllCells[c_k]))
    /\ c_k' = c_k + 1
    /\ SnapKeepsEnergy
    /\ UNCHANGED <<nonSnap, state, state_mutex, w_pc, w_arg, w_k, c_pc, h_last>>

\* state.c:58: the mutex is given and the caller has its snapshot
C_Give ==
    /\ c_pc = "copy"
    /\ c_k > Len(AllCells)
    /\ state_mutex' = "free"
    /\ c_pc' = "done"
    /\ SnapKeepsEnergy
    /\ UNCHANGED <<nonSnap, state, w_pc, w_arg, w_k, c_out, c_k, h_last>>

\* the caller has used the snapshot; its buffer is overwritten by the next
\* state_get
C_Use ==
    /\ c_pc = "done"
    /\ c_pc' = "idle" /\ c_out' = ZeroState /\ c_k' = 0
    /\ SnapKeepsEnergy
    /\ UNCHANGED <<nonSnap, state, state_mutex, w_pc, w_arg, w_k, h_last>>

\* ------------------------------------------------------ mutex operations
nonLocks == <<ctlVars, state, taskVars, hVars, iVars, histVars, detVars, acqVars,
              snapVars, bootVars, last_saved_E, nvs_energy, m_pc, m_in, should_save,
              m_arg, r_pc, s_pc, s_st, e_base, e_sum, n_meas, m_acc, fresh_reset, r_saved>>

Holder(m) == IF m = "state_mutex" THEN state_mutex ELSE control_mutex

\* a task enters one of the calls it makes
K_Call ==
    /\ \E t \in Tasks :
          /\ q_ops[t] = <<>>
          /\ \E c \in CallsOf(t) : q_ops' = [q_ops EXCEPT ![t] = c]
    /\ UNCHANGED <<nonLocks, state_mutex, control_mutex>>

\* xSemaphoreTake(m, portMAX_DELAY): returns once no task holds m
K_Take ==
    /\ \E t \in Tasks :
          /\ q_ops[t] # <<>>
          /\ Head(q_ops[t]).op = "take"
          /\ Holder(Head(q_ops[t]).m) = "free"
          /\ IF Head(q_ops[t]).m = "state_mutex"
             THEN state_mutex' = t /\ UNCHANGED control_mutex
             ELSE control_mutex' = t /\ UNCHANGED state_mutex
          /\ q_ops' = [q_ops EXCEPT ![t] = Tail(q_ops[t])]
    /\ UNCHANGED nonLocks

\* xSemaphoreGive(m) by the task that holds m
K_Give ==
    /\ \E t \in Tasks :
          /\ q_ops[t] # <<>>
          /\ Head(q_ops[t]).op = "give"
          /\ Holder(Head(q_ops[t]).m) = t
          /\ IF Head(q_ops[t]).m = "state_mutex"
             THEN state_mutex' = "free" /\ UNCHANGED control_mutex
             ELSE control_mutex' = "free" /\ UNCHANGED state_mutex
          /\ q_ops' = [q_ops EXCEPT ![t] = Tail(q_ops[t])]
    /\ UNCHANGED nonLocks

\* ------------------------------------------------------------- environment
\* state_update_measure, state.c:15-41 (Vrms and Irms of the closed window)
StateUpdateMeasure ==
    /\ \E vr \in Voltages, ir \in Currents : state' = [state EXCEPT !.Vrms = vr, !.Irms = ir]
    /\ UNCHANGED <<enVars, detVars, acqVars, snapVars, bootVars, ctlVars,  taskVars, hVars, iVars, lkVars, histVars>>

\* the tick interrupt: xTaskGetTickCount advances by one
ClockTick ==
    /\ timer_global_rec' = timer_tick(timer_global_rec)
    /\ timer_cont_fails_i' = timer_tick(timer_cont_fails_i)
    /\ timer_load_rec' = [i \in Loads |-> timer_tick(timer_load_rec[i])]
    /\ since_trip' = IF since_trip < TripSat THEN since_trip + 1 ELSE since_trip
    /\ UNCHANGED <<enVars, detVars, acqVars, snapVars, bootVars, ctrl_mode, load_state, s_cfg, priority_index, imax_fail, v_fail,
                   imax_repetitive, control_global_state, control_state, cont_fails_i,
                   imax_ths, state, taskVars, hVars, iVars, lkVars, trip_far>>

\* a direct call control_global_fsm(cur), made as task_control makes it
GlobalCall ==
    /\ ctrl_mode = "AUTO"
    /\ \E cur \in Currents : I' = cur /\ control_global_fsm(cur)
    /\ UNCHANGED <<enVars, detVars, acqVars, snapVars, bootVars, ctrl_mode, load_state, s_cfg, priority_index, indivVars,
                   state, pc, V, local_priority, k, ret_indiv, level, gpio_ok,
                   local_loads, fails, hVars, iVars, lkVars>>

\* a direct call control_indiv_fsm(h_id, v)
IndivCall ==
    /\ \E v \in VrmsSet : V' = v /\ control_indiv_fsm(h_id, v)
    /\ UNCHANGED <<enVars, detVars, acqVars, snapVars, bootVars, ctrl_mode, load_state, s_cfg, priority_index, globalVars,
                   state, pc, I, ret_global, local_priority, k, level, gpio_ok,
                   local_loads, fails, hVars, iVars, lkVars, histVars>>

\* a direct call control_indiv_fsm(id, v) for any load, made as task_control
\* makes it, at a voltage up to the default lower limit
IndivCallAny ==
    /\ ctrl_mode = "AUTO"
    /\ \E id \in Loads : \E v \in {vv \in VrmsSet : vv <= DEFAULT_VMIN} :
          V' = v /\ control_indiv_fsm(id, v)
    /\ UNCHANGED <<enVars, detVars, acqVars, snapVars, bootVars, ctrl_mode, load_state, s_cfg, priority_index, globalVars,
                   state, pc, I, ret_global, local_priority, k, level, gpio_ok,
                   local_loads, fails, hVars, iVars, lkVars, histVars>>

\* --------------------------------------------------------- specifications
\* all tasks interleaved at their mutex boundaries, under a nominal voltage
\* and a current below or above imax
InitConc == \E ir \in {2000, 6000} : InitWith(0, 2200, ir)

Next ==
    \/ TaskControl
    \/ H_SetMode
    \/ H_LoadBegin \/ H_LoadGpio \/ H_LoadCommit \/ H_LoadPub

Spec == InitConc /\ [][Next]_vars

\* control ticks run to completion; commands, measures and the clock
\* arrive between ticks
BetweenTicks == pc = "idle" /\ h_pc = "idle"

NextSeq ==
    \/ TaskControl
    \/ (BetweenTicks /\ StateUpdateMeasure)
    \/ (BetweenTicks /\ ClockTick)

SpecSeq == Init /\ [][NextSeq]_vars

\* direct calls of the global FSM, re-initialisations and the clock
NextGlobal ==
    \/ GlobalCall
    \/ H_SetMode \/ H_Reset
    \/ ClockTick

SpecGlobal == Init /\ [][NextGlobal]_vars

\* direct calls of the per-load FSM of one load, under every configuration
InitIndiv == \E id \in Loads : InitWith(id, 0, 0)

NextIndiv ==
    \/ IndivCall
    \/ H_SetVmin \/ H_SetVmax \/ H_SetAutoRec
    \/ ClockTick

SpecIndiv == InitIndiv /\ [][NextIndiv]_vars

\* the configuration commands that reach priority_index, with the other
\* per-load setters
NextPrio ==
    \/ H_SetPriority \/ H_LoadCfg \/ H_Reset
    \/ H_SetVmin \/ H_SetVmax \/ H_SetAutoRec

SpecPrio == InitIndiv /\ [][NextPrio]_vars

\* the acquisition task, an energy reset and CFG SAVE, interleaved at their
\* mutex boundaries and store calls, from an empty or a filled store
InitEnergy == \E e0 \in PersistedSet : InitAll(0, 0, 0, e0)

NextEnergy ==
    \/ M_Update \/ M_Arg \/ M_Save
    \/ R_Take \/ R_Save \/ R_Give
    \/ S_Begin \/ S_Get \/ S_Save

SpecEnergy == InitEnergy /\ [][NextEnergy]_vars

\* one sender task: update, mark_sent after an accepted update, the clock
NextDetector == D_Update \/ D_MarkSent \/ D_Clock

SpecDetector == Init /\ [][NextDetector]_vars

\* the acquisition task alone, over every sequence of frames and samples
NextAcq ==
    \/ A_ReadOk \/ A_ReadRejected \/ A_ReadTimeout \/ A_ReadOverflow
    \/ A_SampleInvalid \/ A_SampleV \/ A_SampleI
    \/ A_Publish \/ M_Arg \/ M_Save \/ A_Clear

SpecAcq == Init /\ [][NextAcq]_vars

\* the same, with calls of measure_get_results between the samples
NextAcqGet == NextAcq \/ A_Get

SpecAcqGet == Init /\ [][NextAcqGet]_vars

\* task_control and the acquisition task writing the state, a consumer
\* task reading it
NextSnap ==
    \/ W_Take \/ W_Copy \/ W_Give
    \/ MU_Take \/ MU_Copy \/ MU_Give \/ M_Arg \/ M_Save
    \/ C_Take \/ C_Copy \/ C_Give \/ C_Use

SpecSnap == Init /\ [][NextSnap]_vars

\* the configuration commands of the serial handler and of the broker
\* task, CFG SAVE and power cycles
NextCfg == U_CfgVmax \/ U_CfgVmin \/ I_CfgVrange \/ B_SaveCfg \/ B_Reboot

SpecCfg == Init /\ [][NextCfg]_vars

\* direct calls of the global FSM under a changing imax, with
\* re-initialisations and the clock
NextLatch == NextGlobal \/ H_SetImax

SpecLatch == Init /\ [][NextLatch]_vars

\* whole control ticks, measures and the clock, with the scheduling the
\* firmware has: task_control is a periodic task that always runs again
\* (control.c:376-436), and each of its iterations ends in vTaskDelay, which
\* returns only after xTaskGetTickCount has advanced (control.c:435)
LiveTick == BetweenTicks /\ ClockTick

\* the windows published to a recovering system: nominal, overcurrent,
\* undervoltage
L_Measure ==
    /\ BetweenTicks
    /\ \E mm \in LiveMeasures : state' = [state EXCEPT !.Vrms = mm.Vrms, !.Irms = mm.Irms]
    /\ UNCHANGED <<enVars, detVars, acqVars, snapVars, bootVars, ctlVars, taskVars, hVars, iVars, lkVars,
                   histVars>>

NextLive == TaskControl \/ L_Measure \/ LiveTick

SpecLive == Init /\ [][NextLive]_vars /\ WF_vars(TaskControl) /\ SF_vars(LiveTick)

\* MANUAL mode: LOAD SET commands of the serial handler and of the broker
\* task, interleaved at the mutex boundaries of control_set_load_state
NextManual ==
    \/ H_SetMode
    \/ H_LoadBegin \/ H_LoadGpio \/ H_LoadCommit \/ H_LoadPub
    \/ I_LoadBegin \/ I_LoadGpio \/ I_LoadCommit \/ I_LoadPub

SpecManual == Init /\ [][NextManual]_vars

\* the five tasks at the level of their mutex operations
NextLocks == K_Call \/ K_Take \/ K_Give

SpecLocks == Init /\ [][NextLocks]_vars

\* control ticks cut at their mutex boundaries, with the operator changing
\* imax after the tick has read the measure and before it calls the global
\* FSM, and changing v_min of a load before a call of a per-load FSM
NextEnvelope ==
    \/ TaskControl
    \/ L_Measure \/ LiveTick
    \/ (pc = "global" /\ H_SetImax)
    \/ (pc = "indiv" /\ H_SetVmin)

SpecEnvelope == Init /\ [][NextEnvelope]_vars

\* direct calls of the per-load FSMs in AUTO and the clock, with the
\* commands that re-initialise them: mode switches, CFG DEFAULTS, and LOAD SET
\* commands that switch loads on in MANUAL
NextFlags ==
    \/ (h_pc = "idle" /\ IndivCallAny)
    \/ (h_pc = "idle" /\ ClockTick)
    \/ H_SetMode \/ H_Reset
    \/ (H_LoadBegin /\ h_on') \/ H_LoadGpio \/ H_LoadCommit \/ H_LoadPub

SpecFlags == Init /\ [][NextFlags]_vars

\* ================================================================ properties
\* the load task_control handled last in the running tick
LastLoad == local_priority[k - 1]

\* ----------------------------------------------------------------------- C1
\* C1 (as stated): in AUTO, every control tick leaves load_state[l] and the
\* published output[l] equal to ret_global AND ret_indiv, whatever
\* gpio_load_update returned.
C1_OutputIsConjunction ==
    [][T_Commit =>
          LET l == local_priority[k]
          IN  /\ load_state'[l] = (ret_global /\ ret_indiv)
              /\ local_loads'[l] = (ret_global /\ ret_indiv)]_vars

\* C1 (amended): in AUTO, a control tick leaves load_state[l] equal to
\* ret_global AND ret_indiv for every load whose gpio_load_update succeeded,
\* leaves load_state[l] as it was for a load whose gpio_load_update failed,
\* and publishes as output[] the load_state[] it leaves.
C1_OutputIsConjunctionWhenGpioOk ==
    [][/\ T_Commit =>
            LET l == local_priority[k]
            IN  /\ load_state'[l] = (IF gpio_ok THEN ret_global /\ ret_indiv
                                     ELSE load_state[l])
                /\ local_loads'[l] = load_state'[l]
       /\ T_PubOut => state'.output = load_state]_vars

\* a tick that switched load 0 on and failed to write the pin of the last
\* load, which both FSMs allow and which stays off
C1_Witness ==
    /\ pc = "pub_out"
    /\ local_loads[0] /\ load_state[0]
    /\ ret_global /\ ret_indiv /\ ~gpio_ok
    /\ ~load_state[LastLoad] /\ ~local_loads[LastLoad]

\* ----------------------------------------------------------------------- C2
\* C2: while ctrl_mode is MANUAL, task_control makes no gpio_load_update call
\* and no write to load_state[], under every interleaving with
\* control_set_mode and control_set_load_state.
C2_NoControlWriteInManual ==
    [][ctrl_mode = "MAN" => ~T_Gpio /\ ~(T_Commit /\ gpio_ok)]_vars

\* ----------------------------------------------------------------------- C3
\* C3: control_global_fsm returns true if and only if the state it leaves is
\* OK, for every current, timer state and prior state.
C3_TrueIffOK ==
    [][GlobalCall => (ret_global' <=> control_global_state' = "OK")]_vars

\* a call returned true after a trip had been counted
C3_Witness ==
    ret_global /\ control_global_state = "OK" /\ cont_fails_i = 1 /\ ~imax_ths

\* ----------------------------------------------------------------------- C4
\* C4: in MAN_REC every control_global_fsm call returns false, stays in
\* MAN_REC and keeps imax_repetitive true; the state is left only by
\* control_reset or by the re-initialisation of a MANUAL to AUTO switch,
\* never by a call or by the passing of time.
C4_ManRecLeftOnlyByReset ==
    [][control_global_state = "MAN_REC" =>
          /\ imax_repetitive
          /\ GlobalCall => /\ ~ret_global'
                           /\ control_global_state' = "MAN_REC"
                           /\ imax_repetitive'
          /\ control_global_state' # "MAN_REC" => H_Reset \/ H_SetMode]_vars

\* a call made in MAN_REC (it zeroed the counter) with the trip cleared
C4_Witness ==
    /\ control_global_state = "MAN_REC" /\ imax_repetitive
    /\ cont_fails_i = 0 /\ ~imax_ths /\ ~ret_global

\* ----------------------------------------------------------------------- C5
\* C5: when the trip clears in FAIL_I with cont_fails_i >= MAX_FAIL_I the FSM
\* goes to MAN_REC, not REC, and sets imax_repetitive; from then on no AUTO
\* tick commands a load on or switches load_state[] on.  With
\* cont_fails_i < MAX_FAIL_I it goes to REC and starts timer_global_rec with
\* CONTROL_REC_I_TIME_MS.
C5_RepetitiveLockout ==
    [][/\ (T_Global /\ control_global_state = "FAIL_I" /\ ~imax_ths') =>
             IF cont_fails_i >= 2
             THEN control_global_state' = "MAN_REC" /\ imax_repetitive'
             ELSE /\ control_global_state' = "REC"
                  /\ timer_global_rec' = [lapse |-> 0, timeout_ms |-> 5000, active |-> TRUE]
       /\ control_global_state = "MAN_REC" =>
             /\ control_global_state' = "MAN_REC"
             /\ T_Gpio => ~level'
             /\ \A l \in Loads : load_state'[l] => load_state[l]]_vars

\* two trips within the window ended in MAN_REC, and a later tick commands
\* off a load whose own FSM allows it
C5_Witness ==
    /\ control_global_state = "MAN_REC" /\ imax_repetitive /\ ~trip_far
    /\ cont_fails_i = 0
    /\ pc = "commit" /\ ret_indiv /\ ~level

\* ----------------------------------------------------------------------- C6
\* C6: two trips whose rising edges are more than CONTROL_REPET_I_RST_MS
\* apart are independent faults: the later one never ends in MAN_REC.
C6_FarTripsAreIndependent ==
    control_global_state = "MAN_REC" => ~trip_far

\* ----------------------------------------------------------------------- C7
\* C7 (as stated): in a tick that ends with the global FSM in OK, every load
\* is left with output equal to ret_indiv.
C7_OutputIsIndivOnceOK ==
    [][(T_Commit /\ control_global_state = "OK") =>
          local_loads'[local_priority[k]] = ret_indiv]_vars

\* C7 (amended): while the global FSM is not in OK no load is commanded on;
\* OK is left only to FAIL_I and FAIL_I (below MAX_FAIL_I) only to REC; REC
\* returns to OK only at a call with the trip signal false and at least
\* CONTROL_REC_I_TIME_MS on the timer started on entering REC; a trip in REC
\* goes back to FAIL_I and adds one to cont_fails_i; in a tick that ends in
\* OK every load whose gpio_load_update succeeded is left with load_state
\* and output equal to ret_indiv.
C7_SingleTripRecovery ==
    [][/\ (T_Gpio /\ control_global_state # "OK") => ~level'
       /\ (T_Global /\ control_global_state = "OK") =>
             control_global_state' \in {"OK", "FAIL_I"}
       /\ (T_Global /\ control_global_state = "FAIL_I" /\ cont_fails_i < 2) =>
             control_global_state' \in {"FAIL_I", "REC"}
       /\ (T_Global /\ control_global_state = "REC" /\ control_global_state' = "OK") =>
             /\ ~imax_ths'
             /\ timer_global_rec.active
             /\ timer_global_rec.lapse * TickMs >= 5000
       /\ (T_Global /\ control_global_state = "REC" /\ imax_ths') =>
             /\ control_global_state' = "FAIL_I"
             /\ cont_fails_i' = cont_fails_i + 1
       /\ (T_Commit /\ control_global_state = "OK" /\ gpio_ok) =>
             LET l == local_priority[k]
             IN  load_state'[l] = ret_indiv /\ local_loads'[l] = ret_indiv]_vars

\* the tick that returned from REC to OK after one trip switched a load back on
C7_Witness ==
    /\ pc = "pub_fails" /\ control_global_state = "OK" /\ ret_global
    /\ cont_fails_i = 1 /\ ~timer_cont_fails_i.active
    /\ gpio_ok /\ ret_indiv /\ load_state[LastLoad]

\* ----------------------------------------------------------------------- C8
\* C8 (as stated): the published FAIL_I flag stays true through REC.
C8_FailILatchedThroughREC ==
    (pc = "idle" /\ control_global_state = "REC") => state.fails.FAIL_I

\* C8 (amended): outside the repetitive lockout the published FAIL_I flag is
\* true exactly after the ticks that end in FAIL_I: it rises at the trip and
\* falls at the tick that enters REC, not at the return to OK.
C8_FailIOnlyInFAIL_I ==
    (pc = "idle" /\ ~imax_repetitive) =>
        (state.fails.FAIL_I <=> control_global_state = "FAIL_I")

\* after one trip the FSM waits in REC with the flag already published false
C8_Witness ==
    /\ pc = "idle" /\ control_global_state = "REC" /\ cont_fails_i = 1
    /\ ~state.fails.FAIL_I /\ ~state.fails.FAIL_I_NR

\* ----------------------------------------------------------------------- C9
\* C9 (as stated): a load leaves FAIL_V only at a call with
\* v >= v_min*(1 - 5 %) and v <= v_max*(1 + 5 %) for each enabled bound.
C9_LeavesOnlyPastExactThresholds ==
    [][IndivCall =>
          LET vmin == s_cfg.load[h_id].v_min
              vmax == s_cfg.load[h_id].v_max
          IN  (control_state[h_id] = "FAIL_V" /\ control_state'[h_id] # "FAIL_V") =>
                 /\ vmin >= 0 => 100 * V' >= 95 * vmin
                 /\ vmax >= 0 => 100 * V' <= 105 * vmax]_vars

\* C9 (amended): a load leaves FAIL_V only to OFF and only at a call whose v
\* is not below v_min*(1 - 5 %) truncated to whole volts (so v is more than
\* v_min*(1 - 5 %) - 1) and not above v_max*(1 + 5 %), for each enabled
\* bound; a load in ON or OFF enters FAIL_V only at a call with v < v_min or
\* v > v_max for an enabled bound; a bound of -1 causes no fault.
C9_VoltageThresholds ==
    [][IndivCall =>
          LET vmin == s_cfg.load[h_id].v_min
              vmax == s_cfg.load[h_id].v_max
          IN  /\ (control_state[h_id] = "FAIL_V" /\ control_state'[h_id] # "FAIL_V") =>
                    /\ control_state'[h_id] = "OFF"
                    /\ vmin >= 0 => 100 * (V' + 1) > 95 * vmin
                    /\ vmax >= 0 => 100 * V' <= 105 * vmax
              /\ (control_state[h_id] # "FAIL_V" /\ control_state'[h_id] = "FAIL_V") =>
                    \/ (vmin >= 0 /\ V' < vmin)
                    \/ (vmax >= 0 /\ V' > vmax)]_vars

\* with v_min = 210 a load left FAIL_V at 199 V, below 210 * 0.95 = 199.5
C9_Witness ==
    /\ control_state[h_id] = "OFF" /\ V = 199 /\ ~v_fail[h_id]
    /\ s_cfg.load[h_id].v_min = 210
    /\ timer_load_rec[h_id] = [lapse |-> 0, timeout_ms |-> 3000, active |-> TRUE]

\* ---------------------------------------------------------------------- C10
\* C10: with v_min = 200, after a load entered FAIL_V at V = 180, a call
\* with V = 205 leaves the load in FAIL_V with v_fail true.
C10_FaultHeldInsideRawBand ==
    [][(/\ IndivCall
        /\ control_state[h_id] = "FAIL_V" /\ V = 180 /\ V' = 205
        /\ s_cfg.load[h_id].v_min = 200) =>
          (control_state'[h_id] = "FAIL_V" /\ v_fail'[h_id])]_vars

\* ---------------------------------------------------------------------- C11
\* C11: control_indiv_fsm moves a load from OFF to ON only at a call where
\* auto_rec is true, v is inside the raw range and timer_load_rec, which
\* runs only while the load is in OFF, has counted CONTROL_REC_V_TIME_MS
\* (3000 ms); an out-of-range call in OFF leaves OFF and stops the timer;
\* with auto_rec false no call moves the load from OFF to ON.
C11_AutoReconnectTiming ==
    [][/\ \A l \in Loads : timer_load_rec[l].active => control_state[l] = "OFF"
       /\ IndivCall =>
            LET cfg == s_cfg.load[h_id]
                t   == timer_load_rec[h_id]
                out == \/ (cfg.v_min >= 0 /\ V' < cfg.v_min)
                       \/ (cfg.v_max >= 0 /\ V' > cfg.v_max)
            IN  /\ (control_state[h_id] = "OFF" /\ control_state'[h_id] = "ON") =>
                      /\ cfg.auto_rec
                      /\ ~out
                      /\ t.active /\ t.timeout_ms = 3000
                      /\ t.lapse * TickMs >= 3000
                      /\ ret_indiv'
                /\ (control_state[h_id] = "OFF" /\ out) =>
                      /\ control_state'[h_id] = "FAIL_V"
                      /\ ~timer_load_rec'[h_id].active]_vars

\* a load reconnected: it is ON after a call inside the raw range that
\* returned true, with its timer stopped
C11_Witness ==
    /\ control_state[h_id] = "ON" /\ ret_indiv /\ V = 205
    /\ s_cfg.load[h_id].auto_rec /\ ~timer_load_rec[h_id].active

\* ---------------------------------------------------------------------- C12
\* priority_index holds every load id once, in ascending (priority, id)
PrioSorted ==
    /\ \A l \in Loads : \E i \in Loads : priority_index[i] = l
    /\ \A i, j \in Loads :
          i < j =>
             LET a == priority_index[i]
                 b == priority_index[j]
             IN  \/ s_cfg.load[a].priority < s_cfg.load[b].priority
                 \/ (s_cfg.load[a].priority = s_cfg.load[b].priority /\ a < b)

\* C12: after any sequence of control_reset, control_set_load_priority and
\* control_load_from_nvs, priority_index is a permutation of the load ids in
\* ascending (priority, id); a command that leaves every priority value as
\* it was leaves priority_index as it was.
C12_PriorityIndexSorted ==
    [][/\ PrioSorted /\ PrioSorted'
       /\ (\A l \in Loads : s_cfg'.load[l].priority = s_cfg.load[l].priority) =>
             priority_index' = priority_index]_vars

\* load 0 was given the lowest precedence and moved to the end of the index
C12_Witness ==
    /\ s_cfg.load[0].priority = 255
    /\ priority_index[NUM_LOADS - 1] = 0
    /\ priority_index[0] # 0

\* ---------------------------------------------------------------------- C13
\* C13: in a tick where the global FSM does not allow the loads, the first
\* load task_control disconnects is one with the highest priority number,
\* so that the load with priority 0 is shed last.
C13_PriorityZeroShedLast ==
    [][(T_Gpio /\ ~ret_global /\ k = 0) =>
          \A l \in Loads :
             s_cfg.load[local_priority[0]].priority >= s_cfg.load[l].priority]_vars

\* ---------------------------------------------------------------------- C14
\* C14: state.measure.E never decreases over a state_update_measure, whatever
\* the measure; only state_reset_energy lowers it.
C14_EnergyNeverDecreases ==
    [][state'.E >= state.E \/ R_Take]_vars

\* ---------------------------------------------------------------------- C15
\* C15: under every interleaving of state_update_measure, state_get and
\* state_reset_energy, state.measure.E is the base (the stored energy found
\* at start-up, or 0 since the last reset) plus the sum of the increments
\* submitted since, and the other fields are those of the last measure.
C15_EnergyIsBasePlusSum ==
    /\ state.E = e_base + e_sum
    /\ state.Vrms = m_in.Vrms
    /\ state.Irms = m_in.Irms
    /\ state.fp = m_in.fp

\* two measures accumulated after a reset, while CFG SAVE holds a snapshot
C15_Witness ==
    /\ r_saved /\ ~fresh_reset /\ r_pc = "idle"
    /\ n_meas = 2 /\ e_base = 0 /\ state.E = 1020
    /\ s_pc = "save"

\* ---------------------------------------------------------------------- C16
\* C16: the value state_update_measure hands to nvs_save_energy is the
\* energy of the accumulation that crossed the threshold.
C16_SaveWritesAccumulatedE ==
    [][M_Save => m_arg = m_acc]_vars

\* ---------------------------------------------------------------------- C17
\* C17: nvs_save_energy is never called by state_update_measure or
\* state_reset_energy while state_mutex is held.
C17_NoSaveUnderMutex ==
    [][(M_Save \/ R_Save) => state_mutex = "free"]_vars

\* ---------------------------------------------------------------------- C18
\* C18: once a state_reset_energy whose own write succeeded and every
\* operation in flight have finished, with no state_update_measure begun
\* since the reset, the energy, last_saved_E and the stored energy are 0.
C18_ResetLeavesStoreAtZero ==
    (/\ m_pc = "idle" /\ r_pc = "idle" /\ s_pc = "idle"
     /\ fresh_reset /\ r_saved) =>
        /\ state.E = 0
        /\ last_saved_E = 0
        /\ nvs_energy = 0

\* ---------------------------------------------------------------------- C19
\* the result the statement gives for the call update(detector, d_s', d_ths')
C19_Expected ==
    LET last  == detector.last_sent
        s     == d_s'
        thr   == d_ths'
        value == \/ fabs(s.Vrms - last.Vrms) > thr.v_ths
                 \/ fabs(s.Irms - last.Irms) > thr.i_ths
                 \/ fabs(fabs(s.fp) - fabs(last.fp)) > thr.fp_ths
                 \/ fabs(s.E - last.E) > thr.e_ths
        load  == s.output # last.output
        fail  == s.fails.FAIL_I # last.fails.FAIL_I \/ s.fails.FAIL_V # last.fails.FAIL_V
        enough == U32Geq(U32Sub(now_ms, detector.last_update_time), thr.tmin_ms)
    IN  \/ detector.last_update_time = U32Zero
        \/ ((value \/ load \/ fail) /\ enough)

C20_IdenticalStateNotResent ==
    [][(D_Update /\ d_marked /\ d_s' = detector.last_sent) => ~d_ret']_vars

\* ---------------------------------------------------------------------- C21
\* the eight conditions of the statement, for the call
\* update(detector, d_s', d_ths') at the clock value now_ms
C21_First   == detector.last_update_time = U32Zero
C21_DV      == fabs(d_s'.Vrms - detector.last_sent.Vrms) > d_ths'.v_ths
C21_DI      == fabs(d_s'.Irms - detector.last_sent.Irms) > d_ths'.i_ths
C21_DFp     == fabs(d_s'.fp - detector.last_sent.fp) > d_ths'.fp_ths
C21_DFpAbs  == fabs(fabs(d_s'.fp) - fabs(detector.last_sent.fp)) > d_ths'.fp_ths
C21_DE      == fabs(d_s'.E - detector.last_sent.E) > d_ths'.e_ths
C21_Load    == \E i \in Loads : d_s'.output[i] # detector.last_sent.output[i]
C21_FailAny == d_s'.fails # detector.last_sent.fails
C21_Fail    == \/ d_s'.fails.FAIL_I # detector.last_sent.fails.FAIL_I
               \/ \E i \in Loads : d_s'.fails.FAIL_V[i] # detector.last_sent.fails.FAIL_V[i]
C21_Elapsed == U32Sub(now_ms, detector.last_update_time)
C21_Passed  == U32Geq(C21_Elapsed, d_ths'.tmin_ms) /\ C21_Elapsed # d_ths'.tmin_ms

C22_Sample == f_left' = f_left - 1

\* a step that handed one pair to measure_add_sample
C22_Pair == n_pairs' = n_pairs + 1

\* C22: the pairing automaton of the acquisition loop.  A valid V-sample
\* stores v_mv and sets have_v; a valid I-sample with have_v set hands
\* (v_mv, i_mv) to the window and have_v is cleared before the next sample
\* is looked at; a valid I-sample with have_v clear is dropped; an invalid
\* sample hands nothing over and clears have_v; a rejected frame, a timeout
\* and an overflow consume no sample and leave have_v, v_mv and the window
\* as they were.  v_mv changes at V-samples only and no V-sample is used in
\* two pairs.
C22_PendingV ==
    [][ /\ (C22_Sample /\ a_ev' = "V") =>
              /\ have_v' /\ v_mv' \in MvSet /\ ~C22_Pair
              /\ UNCHANGED <<v_buf, i_buf, sample_index>>
        /\ (C22_Sample /\ a_ev' = "I" /\ have_v) =>
              /\ C22_Pair
              /\ v_buf'[sample_index] = v_mv
              /\ g_win' = Append(g_win, <<v_mv, i_buf'[sample_index]>>)
              /\ (~have_v' \/ a_pc' = "publish")
        /\ (C22_Sample /\ a_ev' = "I" /\ ~have_v) =>
              /\ ~C22_Pair
              /\ UNCHANGED <<have_v, v_buf, i_buf, sample_index>>
        /\ (C22_Sample /\ a_ev' = "invalid") =>
              /\ ~have_v' /\ ~C22_Pair
              /\ UNCHANGED <<v_buf, i_buf, sample_index>>
        /\ (a_pc = "read" /\ a_pc' = "read") =>
              UNCHANGED <<have_v, v_mv, v_buf, i_buf, sample_index, n_pairs, f_left>>
        /\ (a_pc = "clear" /\ a_pc' # "clear") => ~have_v'
        /\ (a_pc \in {"publish", "clear"}) => ~C22_Sample
        /\ (~(C22_Sample /\ a_ev' = "V")) => v_mv' = v_mv
        /\ v_used' <= 1
      ]_vars

\* the I-sample 40 was paired with the pending V-sample 80, which is no
\* longer pending while the frame still holds a sample
C22_Witness ==
    /\ a_ev = "I" /\ n_pairs = 1 /\ v_used = 1 /\ ~have_v
    /\ g_win = <<<<80, 40>>>>
    /\ a_pc = "frame" /\ f_left = 1

\* ---------------------------------------------------------------- C23
\* C23: every pair handed to measure_add_sample is made of an I-sample and
\* the V-sample that comes immediately before it in the sample stream: the
\* last thing the converter delivered before the I-sample was that valid
\* V-sample, with no rejected frame and no overflow in between.
C23_NoGap ==
    [][ C22_Pair => a_ev = "V" ]_vars
\* ---------------------------------------------------------------- C24
\* the measures of the pairs of win, taken in the order they were handed over
C24_MeasureOf(win) ==
    measure_get_results([j \in Slots |-> win[j + 1][1]], [j \in Slots |-> win[j + 1][2]])

\* the write index is the number of pairs modulo the window size, and the
\* windows published are the whole windows among the pairs handed over
C24_Index ==
    /\ sample_index \in Slots
    /\ sample_index = n_pairs % NUM_SAMPLES_ACCUM
    /\ n_meas = IF a_pc = "publish" THEN (n_pairs \div NUM_SAMPLES_ACCUM) - 1
                ELSE n_pairs \div NUM_SAMPLES_ACCUM

\* C24: measure_add_sample returns true exactly on the calls numbered N, 2N,
\* 3N, ... (N = NUM_SAMPLES_ACCUM); the write index stays in 0 .. N-1 and is
\* back at 0 at each close; after k*N pairs exactly k windows were published
\* through state_update_measure, each the measure of its own N pairs in the
\* order they came, one after the other.
C24_Windows ==
    /\ []C24_Index
    /\ [][
            /\ C22_Pair =>
                  /\ ((a_pc' = "publish") <=> (n_pairs' % NUM_SAMPLES_ACCUM = 0))
                  /\ ((a_pc' = "publish") => sample_index' = 0)
            /\ (a_pc = "publish" /\ a_pc' # "publish") =>
                  /\ Len(g_win) = NUM_SAMPLES_ACCUM
                  /\ measure_results' = C24_MeasureOf(g_win)
                  /\ m_in' = C24_MeasureOf(g_win)
                  /\ n_meas' = n_meas + 1
                  /\ state'.Vrms = m_in'.Vrms /\ state'.Irms = m_in'.Irms
                  /\ state'.fp = m_in'.fp
            /\ (a_pc # "publish" \/ a_pc' = "publish") => n_meas' = n_meas
          ]_vars

\* two whole windows were handed over and both were published
C24_Witness ==
    /\ n_pairs = 2 * NUM_SAMPLES_ACCUM /\ n_meas = 2 /\ sample_index = 0
    /\ a_pc = "clear"
\* ---------------------------------------------------------------- C25
\* C25: measure_get_results gives the results of the last closed window and
\* they do not change until the next close: a call made after some further
\* pairs of the window that is filling gives what the call made at the
\* close gave (measure_results).
C25_StableUntilClose ==
    [][ (n_meas >= 1 /\ q_out' # q_out) => q_out' = measure_results ]_vars
\* ---------------------------------------------------------------- C26
\* C26: every state_get returns a whole snapshot.  At the return of the
\* call the copy equals the state as the completed state_update_* calls
\* left it (h_last): its output array is the argument of one
\* state_update_outputs call (or the initial zeros), its fails record the
\* argument of one state_update_fails call, its Vrms, Irms and fp those of
\* one state_update_measure call, whatever task_control and the acquisition
\* task were doing meanwhile.
C26_SnapshotAtomic ==
    [][ (c_pc = "copy" /\ c_pc' = "done") =>
            /\ c_out = h_last
            /\ c_out.output \in SnapOuts
            /\ c_out.fails \in SnapFails
            /\ \/ \E mm \in SnapMeasures :
                      /\ c_out.Vrms = mm.Vrms /\ c_out.Irms = mm.Irms
                      /\ c_out.fp = mm.fp
               \/ (c_out.Vrms = 0 /\ c_out.Irms = 0 /\ c_out.fp = 0)
      ]_vars

\* a snapshot with one load on, the fails set and a published window was
\* returned while task_control is inside its next update
C26_Witness ==
    /\ c_pc = "done"
    /\ c_out.output = [i \in Loads |-> i = 0]
    /\ c_out.fails.FAIL_I
    /\ c_out.Vrms = 2200 /\ c_out.E = 1020
    /\ w_pc = "state_update_outputs" /\ w_k = 2
\* ---------------------------------------------------------------- C27
\* C27: in every configuration and for every load, when v_min and v_max
\* are both enabled (>= 0), v_max is above v_min.
C27_VRange ==
    \A i \in Loads :
        (s_cfg.load[i].v_min >= 0 /\ s_cfg.load[i].v_max >= 0)
            => s_cfg.load[i].v_max > s_cfg.load[i].v_min

\* ---------------------------------------------------------------- C28
\* C28: after a start-up the configuration in force is the one saved
\* earlier with control_save_to_nvs, when there is one, and priority_index
\* is rebuilt from it.
C28_LoadedAtStartup ==
    [][ (b_flip' # b_flip /\ nvs_cfg.saved) =>
            /\ s_cfg' = nvs_cfg.cfg
            /\ priority_index' = control_rebuild_priority_index(nvs_cfg.cfg)
      ]_vars
\* ---------------------------------------------------------------- C29
\* C29: a switch from MANUAL to AUTO leaves every per-load FSM in OFF,
\* whatever the operator had set in MANUAL.
C29_StartFromOff ==
    [][ (ctrl_mode = "MAN" /\ ctrl_mode' = "AUTO") =>
            \A i \in Loads : control_state'[i] = "OFF"
      ]_vars
\* ---------------------------------------------------------------- C30
\* C30: in an AUTO tick where gpio_load_update fails for load l,
\* load_state[l] keeps its previous value, that value is what the tick
\* publishes as output[l], the published FAIL_V[l] is v_fail[l], the loads
\* after l are still processed and published, and every tick, the next
\* one included, commands each load with the verdict of that tick.
C30_GpioFailure ==
    [][ /\ (pc = "commit" /\ ~gpio_ok /\ pc' # "commit") =>
              LET l == local_priority[k]
              IN  /\ load_state' = load_state
                  /\ local_loads'[l] = load_state[l]
                  /\ fails'.FAIL_V[l] = v_fail[l]
                  /\ k' = k + 1
                  /\ pc' = IF k + 1 < NUM_LOADS THEN "indiv" ELSE "pub_fails"
        /\ (pc = "pub_fails" /\ pc' = "pub_out") =>
              \A l \in Loads : state'.fails.FAIL_V[l] = v_fail[l]
        /\ (pc = "pub_out" /\ pc' = "idle") =>
              \A l \in Loads : state'.output[l] = local_loads[l]
        /\ (pc = "indiv" /\ pc' # "indiv") => pc' = "gpio"
        /\ (pc = "gpio" /\ pc' # "gpio") =>
              /\ pc' = "commit"
              /\ level' = (ret_global /\ ret_indiv)
      ]_vars

\* the pin of the last load could not be written in a tick that wanted it
\* off for under- or over-voltage: it stays on, is published on, and its
\* voltage failure is published
C30_Witness ==
    /\ pc = "pub_out" /\ ~gpio_ok
    /\ local_priority[NUM_LOADS - 1] = LastLoad
    /\ load_state[LastLoad] /\ local_loads[LastLoad]
    /\ ~ret_indiv /\ v_fail[LastLoad]
    /\ state.fails.FAIL_V[LastLoad]

\* ---------------------------------------------------------------------- C31
\* C31: control_global_fsm_init, reached through control_reset or a MANUAL
\* to AUTO switch, leaves the global FSM in OK with cont_fails_i = 0 and
\* both timers inactive, whatever state it was in before; hence the first
\* trip after a reset is followed by REC and never by MAN_REC.
C31_InitZeroesCounter ==
    [][ (H_Reset \/ (H_SetMode /\ ctrl_mode = "MAN" /\ ctrl_mode' = "AUTO")) =>
           /\ control_global_state' = "OK"
           /\ cont_fails_i' = 0
           /\ ~timer_global_rec'.active
           /\ ~timer_cont_fails_i'.active ]_vars

\* ---------------------------------------------------------------------- C32
\* the call zeroed a counter that was not 0 (a trip in the same call then
\* counts from 0 to 1)
C32_Cleared == cont_fails_i > 0 /\ cont_fails_i' = (IF imax_ths' THEN 1 ELSE 0)

\* timer_cont_fails_i had run for CONTROL_REPET_I_RST_MS when the call was made
C32_Ran ==
    timer_cont_fails_i.active /\ timer_cont_fails_i.lapse * TickMs >= 10000

\* C32 (as stated): a tick resets cont_fails_i to 0 only when T_repeat has
\* run for at least 10000 ms.
C32_ResetOnlyByWindow ==
    [][ (GlobalCall /\ cont_fails_i > 0 /\ cont_fails_i' = 0) => C32_Ran ]_vars

\* C32 (amended): a tick in OK with cont_fails_i > 0 and no trip starts
\* T_repeat with 10000 ms if it is not active; a tick in OK resets the
\* counter exactly when T_repeat has run for at least 10000 ms, and then no
\* trip happened in those 10000 ms and T_repeat is stopped; a trip in OK
\* stops T_repeat and adds one to the counter; a tick in FAIL_I or REC never
\* lowers the counter; every tick in MAN_REC sets the counter to 0.
C32_WindowInOK ==
    [][ GlobalCall =>
          /\ (control_global_state = "OK" /\ cont_fails_i > 0
                 /\ ~timer_cont_fails_i.active /\ ~imax_ths') =>
                /\ timer_cont_fails_i' = [lapse |-> 0, timeout_ms |-> 10000, active |-> TRUE]
                /\ cont_fails_i' = cont_fails_i
          /\ (control_global_state = "OK" /\ cont_fails_i > 0) =>
                /\ C32_Cleared <=> C32_Ran
                /\ C32_Cleared => /\ since_trip * TickMs >= 10000
                                  /\ ~timer_cont_fails_i'.active
          /\ (control_global_state = "OK" /\ imax_ths') =>
                /\ control_global_state' = "FAIL_I"
                /\ ~timer_cont_fails_i'.active
                /\ ~C32_Cleared => cont_fails_i' = cont_fails_i + 1
          /\ control_global_state \in {"FAIL_I", "REC"} => cont_fails_i' >= cont_fails_i
          /\ control_global_state = "MAN_REC" => cont_fails_i' = 0
          /\ control_global_state # "OK" => ~timer_cont_fails_i.active ]_vars

\* a trip taken in the call that found T_repeat expired: the counter was
\* reset and counts this trip as the first
C32_Witness ==
    /\ control_global_state = "FAIL_I" /\ trip_far
    /\ cont_fails_i = 1 /\ ~timer_cont_fails_i.active /\ since_trip = 0

\* ---------------------------------------------------------------------- C33
\* C33: the trip signal imax_ths changes only in a control_global_fsm call;
\* it becomes true only at a call with I > imax and false only at a call
\* with I < imax * (1 - 10/100), with the imax in force at that call, and
\* keeps its value at every other call; hence no call with I >= 0.9 * imax
\* leaves FAIL_I and, with the signal false, no call with I <= imax leaves OK.
C33_HysteresisLatch ==
    [][ /\ imax_ths' # imax_ths => GlobalCall
        /\ GlobalCall =>
             /\ (~imax_ths /\ imax_ths') => I' > s_cfg.imax
             /\ (imax_ths /\ ~imax_ths') => 100 * I' < 90 * s_cfg.imax
             /\ (~imax_ths /\ I' <= s_cfg.imax) => ~imax_ths'
             /\ (imax_ths /\ 100 * I' >= 90 * s_cfg.imax) => imax_ths'
             /\ (control_global_state = "FAIL_I" /\ 100 * I' >= 90 * s_cfg.imax) =>
                   control_global_state' = "FAIL_I"
             /\ (control_global_state = "OK" /\ ~imax_ths /\ I' <= s_cfg.imax) =>
                   control_global_state' = "OK" ]_vars

\* a call with 4.7 A, between 0.9 * imax and imax = 5.0 A, left the FSM in
\* FAIL_I with the signal still true
C33_Witness ==
    /\ control_global_state = "FAIL_I" /\ imax_ths
    /\ I = 4700 /\ s_cfg.imax = 5000 /\ ~ret_global

\* ---------------------------------------------------------------------- C34
\* the conditions of recovery for load i, on the published measure and the
\* configuration in force
C34_Stable(i) ==
    /\ ctrl_mode = "AUTO"
    /\ 100 * state.Irms < 90 * s_cfg.imax
    /\ s_cfg.load[i].v_min >= 0 => VrmsToI16(state.Vrms) >= s_cfg.load[i].v_min
    /\ s_cfg.load[i].v_max >= 0 => VrmsToI16(state.Vrms) <= s_cfg.load[i].v_max
    /\ s_cfg.load[i].auto_rec
    /\ pc = "commit" => gpio_ok
    /\ control_global_state # "MAN_REC"

C34_Recovered(i) ==
    /\ control_global_state = "OK" /\ cont_fails_i = 0
    /\ control_state[i] = "ON" /\ load_state[i] /\ state.output[i]

\* C34: with control ticks that keep running and a clock that advances, if
\* from some point on, in AUTO, I stays below the reset threshold, V stays
\* inside [v_min, v_max] of load i, auto_rec[i] is true, the GPIO writes
\* succeed and the global FSM is not in MAN_REC, then from some point on the
\* global FSM is OK with cont_fails_i = 0 and load i is ON with output[i] true.
C34_RecoveryLiveness ==
    \A i \in Loads : (<>[]C34_Stable(i)) => (<>[]C34_Recovered(i))

\* a load back on after an overcurrent trip, with the trip counter forgotten
C34_Witness ==
    /\ pc = "idle" /\ C34_Recovered(0) /\ C34_Stable(0)
    /\ ~timer_cont_fails_i.active /\ since_trip = TripSat /\ ~trip_far
    /\ state.Irms = 2000 /\ timer_global_rec.timeout_ms = 5000
    /\ timer_load_rec[0].timeout_ms = 3000

\* ---------------------------------------------------------------------- C35
\* C35: after every control_global_fsm call, control_set_mode and
\* control_reset, imax_fail is true only if the global FSM is in FAIL_I.
C35_FailFlagOnlyInFAIL_I ==
    imax_fail => control_global_state = "FAIL_I"

\* ---------------------------------------------------------------------- C36
\* C36: in MANUAL, once every control_set_load_state call of the serial
\* handler and of the broker task has returned, the published output[]
\* equals load_state[].
C36_PublishedMatchesLoadState ==
    (ctrl_mode = "MAN" /\ h_pc = "idle" /\ i_pc = "idle") => state.output = load_state

\* ---------------------------------------------------------------------- C37
\* task t is inside xSemaphoreTake of a mutex another task holds
C37_Waits(t) ==
    /\ q_ops[t] # <<>> /\ Head(q_ops[t]).op = "take"
    /\ Holder(Head(q_ops[t]).m) # "free"

\* C37: no task holds state_mutex and control_mutex at the same time; a task
\* that holds one of them has its xSemaphoreGive as the next mutex operation
\* on its path; hence a task that waits for a mutex waits for a task that
\* is not waiting itself, and the tasks cannot deadlock on the two mutexes.
C37_MutexDiscipline ==
    \A t \in Tasks :
       /\ ~(state_mutex = t /\ control_mutex = t)
       /\ state_mutex = t => (q_ops[t] # <<>> /\ Head(q_ops[t]) = Give("state_mutex"))
       /\ control_mutex = t => (q_ops[t] # <<>> /\ Head(q_ops[t]) = Give("control_mutex"))
       /\ C37_Waits(t) => /\ Holder(Head(q_ops[t]).m) \in Tasks \ {t}
                          /\ ~C37_Waits(Holder(Head(q_ops[t]).m))
       /\ (q_ops[t] = <<>>) => (state_mutex # t /\ control_mutex # t)

\* the acquisition task holds state_mutex inside state_update_measure, the
\* control task holds control_mutex inside its loop, and the other three
\* tasks wait for one of the two
C37_Witness ==
    /\ state_mutex = "acquisition" /\ control_mutex = "control"
    /\ Len(q_ops["control"]) < 4 * NUM_LOADS
    /\ C37_Waits("serial") /\ C37_Waits("display") /\ C37_Waits("telemetry")
    /\ Head(q_ops["serial"]).m = "control_mutex"
    /\ Head(q_ops["telemetry"]).m = "state_mutex"

\* ---------------------------------------------------------------------- C38
\* C38: in AUTO a tick commands a load on only if the I it read is not above
\* the imax its control_global_fsm call read (imax >= 0) and the V it read
\* is inside the raw range its control_indiv_fsm call read for that load;
\* the level commanded is ret_global AND ret_indiv of those two calls.
C38_ProtectionEnvelope ==
    [][ /\ (T_Global /\ ret_global' /\ s_cfg.imax >= 0) => I <= s_cfg.imax
        /\ (T_Indiv /\ ret_indiv') =>
              LET c == s_cfg.load[local_priority[k]]
              IN  /\ c.v_min >= 0 => V >= c.v_min
                  /\ c.v_max >= 0 => V <= c.v_max
        /\ T_Gpio => level' = (ret_global /\ ret_indiv)
        /\ (pc \in {"global", "fails", "indiv", "gpio", "commit"}) => (I' = I /\ V' = V)
        /\ (pc \in {"fails", "indiv", "gpio", "commit"}) => ret_global' = ret_global
        /\ (pc = "gpio") => ret_indiv' = ret_indiv
      ]_vars

\* load 0 is commanded on at 220 V and 2.0 A after the operator lowered
\* imax to 4.0 A and raised its v_min to 210 V during ticks
C38_Witness ==
    /\ pc = "commit" /\ level /\ local_priority[k] = 0
    /\ I = 2000 /\ s_cfg.imax = 4000
    /\ V = 220 /\ s_cfg.load[0].v_min = 210

\* ---------------------------------------------------------------------- C39
\* C39: after every control_indiv_fsm call and every control_indiv_fsm_init,
\* for every load, v_fail is true exactly when the per-load FSM is in FAIL_V,
\* and the recovery timer of the load is active only in OFF.
C39_FlagsFollowState ==
    \A i \in Loads :
        /\ v_fail[i] <=> (control_state[i] = "FAIL_V")
        /\ timer_load_rec[i].active => control_state[i] = "OFF"

\* one load in FAIL_V, the other re-initialised to ON by a MANUAL to AUTO
\* switch and then taken to OFF with its recovery timer running
C39_Witness ==
    /\ ctrl_mode = "AUTO"
    /\ \E i, j \in Loads :
          /\ control_state[i] = "FAIL_V" /\ v_fail[i]
          /\ load_state[j] /\ control_state[j] = "OFF" /\ timer_load_rec[j].active

\* ---------------------------------------------------------------------- C40
\* C40 (as stated): the overcurrent trip counter cont_fails_i stays within
\* 0..MAX_FAIL_I in every reachable state, under any sequence of ticks, mode
\* switches and control_reset calls.
C40_CounterWithinMax ==
    cont_fails_i \in 0..MAX_FAIL_I

====
